---- MODULE Spec2Model ----
(***************************************************************************)
(* Query execution and response assembly engine of bramble                 *)
(* (src/execution2.go): step scheduler, boundary-id extractor, result      *)
(* merger.                                                                 *)
(***************************************************************************)
EXTENDS Integers, Sequences, FiniteSets, TLC

(***************************************************************************)
(* Bounds of the model.                                                    *)
(***************************************************************************)
\* longest outer sequence of parent records in an extractor input
MaxLen == 2
\* longest inner sequence (a sequence held by an element of a sequence)
MaxInner == 1
\* number of steps of a query plan
MaxSteps == 3
\* longest id list handed to the document builder
MaxIds == 4
\* largest batch size handed to the document builder
MaxBatch == 3
\* deepest nesting of wrapper fields around the list handed to the null bubbler
MaxDepth == 4

(***************************************************************************)
(* interface{} values as decoded by encoding/json: a tagged variant over   *)
(* null, string, number, map[string]interface{} and []interface{}.         *)
(***************************************************************************)
Null == [t |-> "null"]
Str(s) == [t |-> "str", v |-> s]
Num(n) == [t |-> "num", v |-> n]
Map(f) == [t |-> "map", m |-> f]
List(s) == [t |-> "seq", s |-> s]

EmptyMap == Map(<<>>)

IsNull(x) == x.t = "null"
IsStr(x) == x.t = "str"
IsMap(x) == x.t = "map"
IsList(x) == x.t = "seq"

\* m[k] of a Go map held in an interface{}: nil when the key is absent
Get(x, k) == IF k \in DOMAIN x.m THEN x.m[k] ELSE Null

\* the map x with key k set to v (m[k] = v)
Put(x, k, v) == Map([j \in (DOMAIN x.m) \cup {k} |-> IF j = k THEN v ELSE x.m[j]])

\* all sequences over S of length 0..n
SeqsUpTo(S, n) == UNION {[1..k -> S] : k \in 0..n}

(***************************************************************************)
(* extractBoundaryIDs (src/execution2.go:235-287)                          *)
(***************************************************************************)
ErrNone == "nil"
errNilBoundaryData == "errNilBoundaryData"
ErrMissingID == "extractBoundaryIDs: unexpected missing '_id' or 'id' in map"
ErrUnexpectedType == "extractBoundaryIDs: unexpected type"

Ok(ids) == [err |-> ErrNone, ids |-> ids]
Fail(e) == [err |-> e, ids |-> <<>>]

\* id, ok = ptr["_id"].(string); if !ok { id, ok = ptr["id"].(string) }
MutExtractIDFromMap(ptr) ==
    IF IsStr(Get(ptr, "id")) THEN Ok(<<Get(ptr, "id").v>>)
    ELSE IF IsStr(Get(ptr, "_id")) THEN Ok(<<Get(ptr, "_id").v>>)
    ELSE Fail(ErrMissingID)

extractIDFromMap(ptr) ==
    IF IsStr(Get(ptr, "_id")) THEN Ok(<<Get(ptr, "_id").v>>)
    ELSE IF IsStr(Get(ptr, "id")) THEN Ok(<<Get(ptr, "id").v>>)
    ELSE Fail(ErrMissingID)

\* appendIDs letting the walk go on past a null element
MutAppendSkipNil(acc, r) ==
    IF acc.err # ErrNone THEN acc
    ELSE IF r.err = errNilBoundaryData THEN acc
    ELSE IF r.err # ErrNone THEN r
    ELSE Ok(acc.ids \o r.ids)

\* result = append(result, ids...) with the early return on the first error
appendIDs(acc, r) ==
    IF acc.err # ErrNone THEN acc
    ELSE IF r.err # ErrNone THEN r
    ELSE Ok(acc.ids \o r.ids)

RECURSIVE extractBoundaryIDs(_, _)
RECURSIVE extractEach(_, _, _, _)

\* for _, innerPtr := range ptr { ids, err := extractBoundaryIDs(innerPtr, insertionPoint) ... }
extractEach(s, i, insertionPoint, acc) ==
    IF i > Len(s) \/ acc.err # ErrNone THEN acc
    ELSE extractEach(s, i + 1, insertionPoint,
                     appendIDs(acc, extractBoundaryIDs(s[i], insertionPoint)))

extractBoundaryIDs(data, insertionPoint) ==
    IF IsNull(data) THEN Fail(errNilBoundaryData)
    ELSE IF Len(insertionPoint) = 0 THEN
        CASE IsMap(data) -> extractIDFromMap(data)
          [] IsList(data) -> extractEach(data.s, 1, insertionPoint, Ok(<<>>))
          [] OTHER -> Fail(ErrUnexpectedType)
    ELSE
        CASE IsMap(data) -> extractBoundaryIDs(Get(data, Head(insertionPoint)), Tail(insertionPoint))
          [] IsList(data) -> extractEach(data.s, 1, insertionPoint, Ok(<<>>))
          [] OTHER -> Fail(ErrUnexpectedType)

(***************************************************************************)
(* buildBoundaryQueryDocuments, batchBy (src/execution2.go:289-324).       *)
(* A document is kept structured: the array shape is the boundary query    *)
(* with its id list under the alias _result, the non-array shape is the    *)
(* sequence of aliased selections, one per id.                             *)
(***************************************************************************)
\* batch size passed by executeChildStep
BatchSize == 50

nodeAlias(i) == "_" \o ToString(i)

RECURSIVE batchBy(_, _)
batchBy(items, batchSize) ==
    IF batchSize < Len(items)
    THEN <<SubSeq(items, 1, batchSize)>> \o batchBy(SubSeq(items, batchSize + 1, Len(items)), batchSize)
    ELSE <<items>>

\* the selections of one batch; selectionIndex is the counter before the batch
batchSelections(batch, selectionIndex, query) ==
    [i \in 1..Len(batch) |->
        [alias |-> nodeAlias(selectionIndex + i - 1), query |-> query, id |-> batch[i]]]

RECURSIVE batchDocuments(_, _, _)
batchDocuments(batches, selectionIndex, query) ==
    IF batches = <<>> THEN <<>>
    ELSE <<[shape |-> "aliases", sels |-> batchSelections(Head(batches), selectionIndex, query)]>>
         \o batchDocuments(Tail(batches), selectionIndex + Len(Head(batches)), query)

\* buildBoundaryQueryDocuments batching the ids of the array shape as well
MutBuildArrayBatched(ids, parentTypeBoundaryField, batchSize) ==
    IF parentTypeBoundaryField.Array
    THEN [b \in 1..Len(batchBy(ids, batchSize)) |->
            [shape |-> "array", alias |-> "_result",
             query |-> parentTypeBoundaryField.Query, ids |-> batchBy(ids, batchSize)[b]]]
    ELSE batchDocuments(batchBy(ids, batchSize), 0, parentTypeBoundaryField.Query)

buildBoundaryQueryDocuments(ids, parentTypeBoundaryField, batchSize) ==
    IF parentTypeBoundaryField.Array
    THEN <<[shape |-> "array", alias |-> "_result",
            query |-> parentTypeBoundaryField.Query, ids |-> ids]>>
    ELSE batchDocuments(batchBy(ids, batchSize), 0, parentTypeBoundaryField.Query)

(***************************************************************************)
(* mergeExecutionResults, mergeExecutionResultsRec, boundaryIDFromMap,     *)
(* getBoundaryFieldResults (src/execution2.go:326-458).  The Go code       *)
(* writes into the maps of dst in place; here the rewritten dst is         *)
(* returned beside the error.                                              *)
(***************************************************************************)
boundaryIDFromMap(val) ==
    IF ~IsMap(val)
    THEN [err |-> "boundaryIDFromMap: expected map to extract boundary id", id |-> ""]
    ELSE IF IsStr(Get(val, "_id")) THEN [err |-> ErrNone, id |-> Get(val, "_id").v]
    ELSE IF IsStr(Get(val, "id")) THEN [err |-> ErrNone, id |-> Get(val, "id").v]
    ELSE [err |-> "boundaryIDFromMap: 'id' or '_id' not found", id |-> ""]

getBoundaryFieldResults(src) ==
    IF ~IsList(src) THEN [err |-> "getBoundaryFieldResults: expected a slice", result |-> <<>>]
    ELSE IF \E i \in 1..Len(src.s) : ~IsMap(src.s[i])
    THEN [err |-> "getBoundaryFieldResults: expected a map element", result |-> <<>>]
    ELSE [err |-> ErrNone, result |-> src.s]

\* copyKeys copying the identifier keys as well
MutCopyKeysAll(ptr, src, skip) ==
    Map([k \in (DOMAIN ptr.m) \cup (DOMAIN src.m) |->
            IF k \in DOMAIN src.m THEN src.m[k] ELSE ptr.m[k]])

\* for k, v := range src { ptr[k] = v }, the keys in skip left out
copyKeys(ptr, src, skip) ==
    Map([k \in (DOMAIN ptr.m) \cup ((DOMAIN src.m) \ skip) |->
            IF k \in (DOMAIN src.m) \ skip THEN src.m[k] ELSE ptr.m[k]])

\* for _, result := range boundaryResults { ... if srcID == dstID { copy } }
RECURSIVE spliceEntities(_, _, _, _)
spliceEntities(boundaryResults, i, dstID, ptr) ==
    IF i > Len(boundaryResults) THEN [err |-> ErrNone, dst |-> ptr]
    ELSE LET srcID == boundaryIDFromMap(boundaryResults[i]) IN
         IF srcID.err # ErrNone THEN [err |-> srcID.err, dst |-> ptr]
         ELSE spliceEntities(boundaryResults, i + 1, dstID,
                             IF srcID.id = dstID
                             THEN copyKeys(ptr, boundaryResults[i], {"_id", "id"})
                             ELSE ptr)

RECURSIVE mergeExecutionResultsRec(_, _, _)
RECURSIVE mergeEach(_, _, _, _, _)

\* for _, innerPtr := range ptr { if err := mergeExecutionResultsRec(src, innerPtr, ...) }
mergeEach(src, elems, i, insertionPoint, done) ==
    IF i > Len(elems) THEN [err |-> ErrNone, dst |-> List(done)]
    ELSE LET r == mergeExecutionResultsRec(src, elems[i], insertionPoint) IN
         IF r.err # ErrNone THEN [err |-> r.err, dst |-> List(done)]
         ELSE mergeEach(src, elems, i + 1, insertionPoint, Append(done, r.dst))

mergeExecutionResultsRec(src, dst, insertionPoint) ==
    IF Len(insertionPoint) = 0 THEN
        \* base case
        IF IsMap(dst) THEN
            IF IsMap(src) THEN [err |-> ErrNone, dst |-> copyKeys(dst, src, {})]
            ELSE IF IsList(src) THEN
                LET boundaryResults == getBoundaryFieldResults(src)
                    dstID == boundaryIDFromMap(dst)
                IN IF boundaryResults.err # ErrNone THEN [err |-> boundaryResults.err, dst |-> dst]
                   ELSE IF dstID.err # ErrNone THEN [err |-> dstID.err, dst |-> dst]
                   ELSE spliceEntities(boundaryResults.result, 1, dstID.id, dst)
            ELSE [err |-> ErrNone, dst |-> dst]
        ELSE [err |-> "mergeExecutionResultsRec: unxpected type for top-level merge", dst |-> dst]
    ELSE
        \* recursive case
        IF IsMap(dst) THEN
            LET ptr == Get(dst, Head(insertionPoint)) IN
            IF IsList(ptr)
            THEN LET r == mergeEach(src, ptr.s, 1, Tail(insertionPoint), <<>>) IN
                 IF r.err # ErrNone THEN [err |-> r.err, dst |-> dst]
                 ELSE [err |-> ErrNone, dst |-> Put(dst, Head(insertionPoint), r.dst)]
            ELSE LET r == mergeExecutionResultsRec(src, ptr, Tail(insertionPoint)) IN
                 IF r.err # ErrNone THEN [err |-> r.err, dst |-> dst]
                 ELSE [err |-> ErrNone, dst |-> Put(dst, Head(insertionPoint), r.dst)]
        ELSE IF IsList(dst)
        THEN mergeEach(src, dst.s, 1, Tail(insertionPoint), <<>>)
        ELSE [err |-> "mergeExecutionResultsRec: unxpected type for non top-level merge",
              dst |-> dst]

\* for _, result := range results[1:] { mergeExecutionResultsRec(result.Data, data, ...) }
RECURSIVE mergeFrom(_, _, _)
mergeFrom(results, i, data) ==
    IF i > Len(results) THEN [err |-> ErrNone, dst |-> data]
    ELSE LET r == mergeExecutionResultsRec(results[i].Data, data, results[i].InsertionPoint) IN
         IF r.err # ErrNone THEN r ELSE mergeFrom(results, i + 1, r.dst)

mergeExecutionResults(results) ==
    IF Len(results) = 0 THEN [err |-> "mergeExecutionResults: nothing to merge", data |-> Null]
    ELSE IF Len(results) = 1 THEN
        IF IsMap(results[1].Data) THEN [err |-> ErrNone, data |-> results[1].Data]
        ELSE [err |-> "a complete graphql response should be map[string]interface{}",
              data |-> Null]
    ELSE LET r == mergeFrom(results, 2, results[1].Data) IN
         IF r.err # ErrNone THEN [err |-> r.err, data |-> Null]
         ELSE IF IsMap(r.dst) THEN [err |-> ErrNone, data |-> r.dst]
         ELSE [err |-> "merged execution results should be map[string]interface{}",
               data |-> Null]

(***************************************************************************)
(* Internal-step handler: ExecuteBrambleStep, BuildTypenameResponseMap,    *)
(* hasNamespaceDirective (src/execution2.go:186-232).  A selection set is  *)
(* a sequence of fields; SelectionSet = <<>> with HasSelectionSet = FALSE  *)
(* is the nil selection set of a leaf.                                     *)
(***************************************************************************)
internalServiceName == "__bramble"

Leaf(name) ==
    [Alias |-> name, Name |-> name, HasSelectionSet |-> FALSE, SelectionSet |-> <<>>,
     NamedType |-> "String", Directives |-> {}]
Node(name, namedType, directives, sub) ==
    [Alias |-> name, Name |-> name, HasSelectionSet |-> TRUE, SelectionSet |-> sub,
     NamedType |-> namedType, Directives |-> directives]

hasNamespaceDirective(directiveList) == "@namespace" \in directiveList

RECURSIVE BuildTypenameResponseMap(_, _)
RECURSIVE buildTypenameFields(_, _, _, _)

\* for _, field := range selectionSetToFields(selectionSet) { ... }
buildTypenameFields(fields, i, parentTypeName, result) ==
    IF i > Len(fields) THEN [err |-> ErrNone, data |-> result]
    ELSE LET field == fields[i] IN
        IF field.HasSelectionSet THEN
            IF field.NamedType = "" THEN [err |-> "expected named type", data |-> Null]
            ELSE IF ~hasNamespaceDirective(field.Directives)
            THEN [err |-> "expected namespace directive", data |-> Null]
            ELSE LET lower == BuildTypenameResponseMap(field.SelectionSet, field.NamedType) IN
                 IF lower.err # ErrNone THEN [err |-> lower.err, data |-> Null]
                 ELSE buildTypenameFields(fields, i + 1, parentTypeName,
                                          Put(result, field.Alias, lower.data))
        ELSE IF field.Name # "__typename" THEN [err |-> "expected __typename", data |-> Null]
        ELSE buildTypenameFields(fields, i + 1, parentTypeName,
                                 Put(result, field.Alias, Str(parentTypeName)))

BuildTypenameResponseMap(selectionSet, parentTypeName) ==
    buildTypenameFields(selectionSet, 1, parentTypeName, EmptyMap)

ExecuteBrambleStep(queryPlanStep) ==
    LET r == BuildTypenameResponseMap(queryPlanStep.SelectionSet, queryPlanStep.ParentType) IN
    IF r.err # ErrNone THEN [err |-> r.err, result |-> Null]
    ELSE [err |-> ErrNone,
          result |-> [ServiceURL |-> internalServiceName, InsertionPoint |-> <<>>,
                      Data |-> r.data]]

(***************************************************************************)
(* bubbleUpNullValuesInPlace, bubbleUpNullValuesInPlaceRec,                *)
(* implementsInterface (src/execution2.go:463-557, 631-638).               *)
(*                                                                         *)
(* A selection is a field (with the NonNull flag of its type and of the    *)
(* element type of a list type), a fragment spread or an inline fragment.  *)
(* The Go code rewrites the maps and slices of result in place; here the   *)
(* rewritten value is returned beside errs, bubbleUp and err.              *)
(*                                                                         *)
(* An ast.Path is a slice: append(path, e) writes e into the backing array *)
(* of path when its capacity allows and allocates a copy otherwise, and a  *)
(* recorded error keeps the slice, not a copy.  The backing arrays are     *)
(* kept in a heap threaded through the calls; the path of an error is what *)
(* its slice reads when bubbleUpNullValuesInPlace has returned.            *)
(***************************************************************************)
errNullBubbledToRoot == "bubbleUpNullValuesInPlace: null bubbled up to root"

TypedField(alias, nonNull, elemNonNull, sub) ==
    [kind |-> "Field", Alias |-> alias, NonNull |-> nonNull, ElemNonNull |-> elemNonNull,
     HasSelectionSet |-> TRUE, SelectionSet |-> sub, TypeCondition |-> ""]
ScalarField(alias, nonNull) ==
    [kind |-> "Field", Alias |-> alias, NonNull |-> nonNull, ElemNonNull |-> FALSE,
     HasSelectionSet |-> FALSE, SelectionSet |-> <<>>, TypeCondition |-> ""]
InlineFragment(typeCondition, sub) ==
    [kind |-> "InlineFragment", Alias |-> "", NonNull |-> FALSE, ElemNonNull |-> FALSE,
     HasSelectionSet |-> TRUE, SelectionSet |-> sub, TypeCondition |-> typeCondition]
FragmentSpread(typeCondition, sub) ==
    [kind |-> "FragmentSpread", Alias |-> "", NonNull |-> FALSE, ElemNonNull |-> FALSE,
     HasSelectionSet |-> TRUE, SelectionSet |-> sub, TypeCondition |-> typeCondition]

\* TypeOf taking the NonNull flag of the list type for that of its elements
MutTypeOfList(field) == [isNil |-> FALSE, ElemNonNull |-> field.NonNull]

\* field.Definition.Type as handed down to the loop over a list; NilType is
\* the nil *ast.Type
TypeOf(field) == [isNil |-> FALSE, ElemNonNull |-> field.ElemNonNull]
NilType == [isNil |-> TRUE, ElemNonNull |-> FALSE]

\* schema.Implements: the interfaces of each object type
Schema == [Implements |-> [Cat |-> {"Animal"}, Dog |-> {"Animal"}]]

implementsInterface(schema, objectType, interfaceType) ==
    /\ objectType \in DOMAIN schema.Implements
    /\ interfaceType \in schema.Implements[objectType]

\* elements of an ast.Path
PathName(name) == [k |-> "name", v |-> name]
PathIndex(i) == [k |-> "index", v |-> ToString(i)]
UnsetSlot == [k |-> "unset", v |-> ""]

\* ast.Path{}: the empty slice, over the first array of the heap
EmptyPath == [arr |-> 1, len |-> 0]
EmptyHeap == <<<<>>>>

\* the capacity the runtime gives the array a full slice is grown into
GrownCap(cap) == IF cap = 0 THEN 1 ELSE cap + cap

\* append(path, e)
appendPath(heap, path, e) ==
    IF path.len < Len(heap[path.arr])
    THEN [heap |-> [heap EXCEPT ![path.arr][path.len + 1] = e],
          path |-> [arr |-> path.arr, len |-> path.len + 1]]
    ELSE [heap |-> Append(heap,
                          [i \in 1..GrownCap(Len(heap[path.arr])) |->
                              IF i <= path.len THEN heap[path.arr][i]
                              ELSE IF i = path.len + 1 THEN e ELSE UnsetSlot]),
          path |-> [arr |-> Len(heap) + 1, len |-> path.len + 1]]

\* what a path slice reads
ReadPath(heap, path) == SubSeq(heap[path.arr], 1, path.len)

\* the three results of bubbleUpNullValuesInPlaceRec with the rewritten
\* result and the heap
Bubbled(errs, bubbleUp, err, result, heap) ==
    [errs |-> errs, bubbleUp |-> bubbleUp, err |-> err, result |-> result, heap |-> heap]

RECURSIVE bubbleUpNullValuesInPlaceRec(_, _, _, _, _, _)
RECURSIVE bubbleSelections(_, _, _, _, _)
RECURSIVE bubbleElements(_, _, _, _, _, _)

\* for _, selection := range selectionSet { ... } over the map acc.result
bubbleSelections(schema, selectionSet, i, acc, path) ==
    IF i > Len(selectionSet) THEN acc
    ELSE LET selection == selectionSet[i] IN
    CASE selection.kind = "Field" ->
            LET value == Get(acc.result, selection.Alias) IN
            IF IsNull(value) THEN
                IF selection.NonNull
                THEN LET a == appendPath(acc.heap, path, PathName(selection.Alias)) IN
                     Bubbled(Append(acc.errs, [Message |-> "field failed to resolve",
                                               Path |-> a.path]),
                             TRUE, ErrNone, acc.result, a.heap)
                ELSE acc
            ELSE IF selection.HasSelectionSet THEN
                LET a == appendPath(acc.heap, path, PathName(selection.Alias))
                    lower == bubbleUpNullValuesInPlaceRec(schema, TypeOf(selection),
                                 selection.SelectionSet, value, a.path, a.heap)
                IN IF lower.err # ErrNone
                   THEN Bubbled(<<>>, FALSE, lower.err,
                                Put(acc.result, selection.Alias, lower.result), lower.heap)
                   ELSE bubbleSelections(schema, selectionSet, i + 1,
                            Bubbled(acc.errs \o lower.errs,
                                    acc.bubbleUp \/ (lower.bubbleUp /\ selection.NonNull),
                                    ErrNone,
                                    Put(acc.result, selection.Alias,
                                        IF lower.bubbleUp /\ ~selection.NonNull
                                        THEN Null ELSE lower.result),
                                    lower.heap),
                            path)
            ELSE bubbleSelections(schema, selectionSet, i + 1, acc, path)
      [] selection.kind \in {"FragmentSpread", "InlineFragment"} ->
            LET typename == Get(acc.result, "__typename") IN
            IF ~IsStr(typename)
            THEN Bubbled(<<>>, FALSE, "missing expected __typename", acc.result, acc.heap)
            ELSE IF typename.v # selection.TypeCondition
                    /\ ~implementsInterface(schema, typename.v, selection.TypeCondition)
            THEN bubbleSelections(schema, selectionSet, i + 1, acc, path)
            ELSE LET lower == bubbleUpNullValuesInPlaceRec(schema, NilType,
                                  selection.SelectionSet, acc.result, path, acc.heap)
                 IN IF lower.err # ErrNone
                    THEN Bubbled(<<>>, FALSE, lower.err, lower.result, lower.heap)
                    ELSE bubbleSelections(schema, selectionSet, i + 1,
                             Bubbled(acc.errs \o lower.errs, lower.bubbleUp, ErrNone,
                                     lower.result, lower.heap),
                             path)
      [] OTHER -> Bubbled(acc.errs, acc.bubbleUp, "unknown selection type",
                          acc.result, acc.heap)

\* for i, value := range result { ... } over the slice acc.result
bubbleElements(schema, currentType, selectionSet, i, acc, path) ==
    IF i > Len(acc.result.s) THEN acc
    ELSE LET a == appendPath(acc.heap, path, PathIndex(i - 1))
             lower == bubbleUpNullValuesInPlaceRec(schema, currentType, selectionSet,
                                                   acc.result.s[i], a.path, a.heap)
             replaced(v) == List([acc.result.s EXCEPT ![i] = v])
         IN IF lower.err # ErrNone
            THEN Bubbled(<<>>, FALSE, lower.err, replaced(lower.result), lower.heap)
            ELSE IF lower.bubbleUp /\ currentType.isNil
            THEN Bubbled(<<>>, FALSE, "panic: nil pointer dereference",
                         replaced(lower.result), lower.heap)
            ELSE bubbleElements(schema, currentType, selectionSet, i + 1,
                     Bubbled(acc.errs \o lower.errs,
                             acc.bubbleUp \/ (lower.bubbleUp /\ currentType.ElemNonNull),
                             ErrNone,
                             replaced(IF lower.bubbleUp /\ ~currentType.ElemNonNull
                                      THEN Null ELSE lower.result),
                             lower.heap),
                     path)

bubbleUpNullValuesInPlaceRec(schema, currentType, selectionSet, result, path, heap) ==
    CASE IsMap(result) ->
            bubbleSelections(schema, selectionSet, 1,
                             Bubbled(<<>>, FALSE, ErrNone, result, heap), path)
      [] IsList(result) ->
            bubbleElements(schema, currentType, selectionSet, 1,
                           Bubbled(<<>>, FALSE, ErrNone, result, heap), path)
      [] OTHER ->
            Bubbled(<<>>, FALSE, "bubbleUpNullValuesInPlaceRec: unxpected result type",
                    result, heap)

\* bubbleUpNullValuesInPlace returning the errors when the null has reached
\* the root
MutBubbleKeepRoot(schema, selectionSet, result) ==
    LET r == bubbleUpNullValuesInPlaceRec(schema, NilType, selectionSet, result,
                                          EmptyPath, EmptyHeap)
    IN IF r.err # ErrNone THEN [errs |-> <<>>, err |-> r.err, result |-> r.result]
       ELSE [errs |-> [i \in 1..Len(r.errs) |->
                         [Message |-> r.errs[i].Message,
                          Path |-> ReadPath(r.heap, r.errs[i].Path)]],
             err |-> ErrNone, result |-> r.result]

\* errs with each path as the caller reads it, err, and result as the call
\* leaves it
bubbleUpNullValuesInPlace(schema, selectionSet, result) ==
    LET r == bubbleUpNullValuesInPlaceRec(schema, NilType, selectionSet, result,
                                          EmptyPath, EmptyHeap)
    IN IF r.err # ErrNone THEN [errs |-> <<>>, err |-> r.err, result |-> r.result]
       ELSE IF r.bubbleUp THEN [errs |-> <<>>, err |-> errNullBubbledToRoot, result |-> r.result]
       ELSE [errs |-> [i \in 1..Len(r.errs) |->
                         [Message |-> r.errs[i].Message,
                          Path |-> ReadPath(r.heap, r.errs[i].Path)]],
             err |-> ErrNone, result |-> r.result]

(***************************************************************************)
(* formatResponseBody, formatResponseDataRec, selectionFields               *)
(* (src/execution2.go:559-629).  The buffer is kept as the sequence of the *)
(* pieces written to it, a nested body being written piece by piece;       *)
(* BufferString joins them into the string the function returns.           *)
(***************************************************************************)
\* selectionFields walking the selection set from its last selection
RECURSIVE MutSelectionFieldsBackwards(_)
MutSelectionFieldsBackwards(selectionSet) ==
    IF selectionSet = <<>> THEN <<>>
    ELSE MutSelectionFieldsBackwards(Tail(selectionSet))
         \o (IF Head(selectionSet).kind = "Field" THEN <<Head(selectionSet)>>
             ELSE MutSelectionFieldsBackwards(Head(selectionSet).SelectionSet))

RECURSIVE selectionFields(_)
selectionFields(selectionSet) ==
    IF selectionSet = <<>> THEN <<>>
    ELSE (IF Head(selectionSet).kind = "Field" THEN <<Head(selectionSet)>>
          ELSE selectionFields(Head(selectionSet).SelectionSet))
         \o selectionFields(Tail(selectionSet))

\* the keys of the model in the order encoding/json sorts them
SortedKeys == <<"__typename", "bark", "id", "name", "owner", "pets", "purr">>

\* json.Marshal of a value: the keys of a map sorted, no white space
RECURSIVE Marshal(_)
RECURSIVE marshalMembers(_, _, _)
RECURSIVE marshalElements(_, _)
marshalMembers(v, i, first) ==
    IF i > Len(SortedKeys) THEN ""
    ELSE IF SortedKeys[i] \notin DOMAIN v.m THEN marshalMembers(v, i + 1, first)
    ELSE (IF first THEN "" ELSE ",") \o "\"" \o SortedKeys[i] \o "\":"
         \o Marshal(v.m[SortedKeys[i]]) \o marshalMembers(v, i + 1, FALSE)
marshalElements(q, i) ==
    IF i > Len(q) THEN ""
    ELSE Marshal(q[i]) \o (IF i < Len(q) THEN "," ELSE "") \o marshalElements(q, i + 1)
Marshal(v) ==
    CASE IsNull(v) -> "null"
      [] IsStr(v) -> "\"" \o v.v \o "\""
      [] IsMap(v) -> "{" \o marshalMembers(v, 1, TRUE) \o "}"
      [] IsList(v) -> "[" \o marshalElements(v.s, 1) \o "]"
      [] OTHER -> ToString(v.v)

\* fmt.Sprintf(`"%s":`, field.Alias)
KeyPiece(alias) == "\"" \o alias \o "\":"

ErrNoValueFor(alias) == "could not find value in data for field " \o alias

RECURSIVE formatResponseDataRec(_, _)
RECURSIVE formatFields(_, _, _, _)
RECURSIVE formatElements(_, _, _, _)
\* the loop over the fields of a map, from the i-th field on
formatFields(fields, i, result, buf) ==
    IF i > Len(fields) THEN [body |-> Append(buf, "}"), err |-> ErrNone]
    ELSE IF fields[i].Alias \notin DOMAIN result.m
    THEN [body |-> <<>>, err |-> ErrNoValueFor(fields[i].Alias)]
    ELSE LET fieldData == result.m[fields[i].Alias]
             inner == IF fields[i].HasSelectionSet
                      THEN formatResponseDataRec(fields[i].SelectionSet, fieldData)
                      ELSE [body |-> <<Marshal(fieldData)>>, err |-> ErrNone]
         IN IF inner.err # ErrNone THEN [body |-> <<>>, err |-> inner.err]
            ELSE formatFields(fields, i + 1, result,
                              buf \o <<KeyPiece(fields[i].Alias)>> \o inner.body
                                  \o (IF i < Len(fields) THEN <<",">> ELSE <<>>))

\* the loop over the elements of a list, from the i-th element on
formatElements(selectionSet, result, i, buf) ==
    IF i > Len(result) THEN [body |-> Append(buf, "]"), err |-> ErrNone]
    ELSE LET inner == formatResponseDataRec(selectionSet, result[i])
         IN IF inner.err # ErrNone THEN [body |-> <<>>, err |-> inner.err]
            ELSE formatElements(selectionSet, result, i + 1,
                                buf \o inner.body
                                    \o (IF i < Len(result) THEN <<",">> ELSE <<>>))

formatResponseDataRec(selectionSet, result) ==
    CASE IsNull(result) -> [body |-> <<"null">>, err |-> ErrNone]
      [] IsMap(result) -> formatFields(selectionFields(selectionSet), 1, result, <<"{">>)
      [] IsList(result) -> formatElements(selectionSet, result.s, 1, <<"[">>)
      [] OTHER -> [body |-> <<>>, err |-> ErrNone]

formatResponseBody(selectionSet, result) == formatResponseDataRec(selectionSet, result)

\* buf.String()
RECURSIVE BufferString(_)
BufferString(buf) == IF buf = <<>> THEN "" ELSE Head(buf) \o BufferString(Tail(buf))

(***************************************************************************)
(* Query plans (QueryPlan, QueryPlanStep).  Steps are numbered 1..MaxSteps,*)
(* parent[s] = 0 for a root step; RootSteps and Then list the steps in     *)
(* ascending order.                                                        *)
(***************************************************************************)
Steps == 1..MaxSteps

SortedSeq(S) ==
    CHOOSE f \in [1..Cardinality(S) -> S] : \A i, j \in 1..Cardinality(S) : i < j => f[i] < f[j]

RootSteps(p) == SortedSeq({s \in Steps : p.parent[s] = 0})
Then(p, s) == SortedSeq({c \in Steps : p.parent[c] = s})

IsRoot(p, s) == p.parent[s] = 0

RECURSIVE Ancestors(_, _)
Ancestors(p, s) ==
    IF p.parent[s] = 0 THEN {} ELSE {p.parent[s]} \cup Ancestors(p, p.parent[s])

\* the selection sets of the internal steps of the plans
SelNamespace == <<Node("namespace", "NamespaceQuery", {"@namespace"}, <<Leaf("__typename")>>)>>
SelNotTypename == <<Leaf("title")>>
SelService == <<Leaf("a")>>

\* what a root step can be: a service step of a query or of a mutation, an
\* internal step the handler can serve (__typename of a namespace) or cannot
RootKinds ==
    { [ServiceURL |-> "svc", ParentType |-> "Query", SelectionSet |-> SelService],
      [ServiceURL |-> "svc", ParentType |-> "Mutation", SelectionSet |-> SelService],
      [ServiceURL |-> internalServiceName, ParentType |-> "Query", SelectionSet |-> SelNamespace],
      [ServiceURL |-> internalServiceName, ParentType |-> "Query", SelectionSet |-> SelNotTypename] }

ChildKind == [ServiceURL |-> "svc", ParentType |-> "Gizmo", SelectionSet |-> SelService]

\* insertion points: a root step has the empty path, a child of a root step
\* the path first, a deeper step its parent's path and one more segment
RECURSIVE InsertionPointOf(_, _, _)
InsertionPointOf(parent, first, s) ==
    IF parent[s] = 0 THEN <<>>
    ELSE IF parent[parent[s]] = 0 THEN first
    ELSE InsertionPointOf(parent, first, parent[s]) \o <<"c">>

FirstPaths == {<<"a">>, <<"a", "b">>}

\* the kinds the steps of a tree can have: root kinds for its roots, the
\* child kind for the others
KindsOf(par) ==
    {kd \in [Steps -> RootKinds \cup {ChildKind}] :
        \A s \in Steps : IF par[s] = 0 THEN kd[s] \in RootKinds ELSE kd[s] = ChildKind}

\* whether the boundary query of each step is an array query; root steps
\* have no boundary query
ArraysOf(par) == {ar \in [Steps -> BOOLEAN] : \A s \in Steps : par[s] = 0 => ~ar[s]}

\* the path of the children of root steps, one when there is no child
FirstPathsOf(par) == IF \A s \in Steps : par[s] = 0 THEN {<<"a">>} ELSE FirstPaths

Plans ==
    UNION {{[parent |-> par, kind |-> kd, first |-> fp, Array |-> ar] :
                kd \in KindsOf(par), fp \in FirstPathsOf(par), ar \in ArraysOf(par)} :
            par \in {f \in [Steps -> 0..MaxSteps] : \A s \in Steps : f[s] < s}}

\* the QueryPlanStep s of plan p
Step(p, s) ==
    [ServiceURL |-> p.kind[s].ServiceURL, ParentType |-> p.kind[s].ParentType,
     SelectionSet |-> p.kind[s].SelectionSet,
     InsertionPoint |-> InsertionPointOf(p.parent, p.first, s)]

\* q.boundaryQueries.Query(step.ServiceURL, step.ParentType)
BoundaryQueryOf(p, s) == [Query |-> "getGizmo", Array |-> p.Array[s]]

(***************************************************************************)
(* Downstream services behind the injected client                          *)
(* (GraphQLClientInterface.Request, called at src/execution2.go:182).      *)
(***************************************************************************)
Rec(key, id) == Map(key :> Str(id))
RecNoID == Map("name" :> Str("n"))

\* the parent records a root response may hold: alternately keyed id and _id
ParentRecord(i) == IF i % 2 = 1 THEN Rec("id", "1") ELSE Rec("_id", "2")

\* the values a root response may hold at a child's insertion point
RootValues ==
    {Null, Str("x"), RecNoID, Rec("id", "1")}
    \cup {List([i \in 1..n |-> ParentRecord(i)]) : n \in 0..MaxLen}

RECURSIVE Wrap(_, _)
Wrap(path, v) == IF path = <<>> THEN v ELSE Map(Head(path) :> Wrap(Tail(path), v))

\* the data mappings a service may answer a root step with
RootResponses(p, s) ==
    IF Then(p, s) = <<>> THEN {Wrap(<<"a">>, Rec("id", "1"))}
    ELSE {Wrap(p.first, v) : v \in RootValues}

\* what an entity of a child response holds under "c"
ChildKinds == {"record", "null", "list"}
EntityOf(id, kind) ==
    Map("_id" :> Str(id) @@
        "c" :> (CASE kind = "record" -> Rec("id", "7")
                  [] kind = "list" -> List(<<Rec("_id", "7"), Rec("id", "8")>>)
                  [] OTHER -> Null))

\* the data mapping a service answers a boundary document with
Respond(document, kind) ==
    IF document.shape = "array"
    THEN Map("_result" :> List([i \in 1..Len(document.ids) |-> EntityOf(document.ids[i], kind)]))
    ELSE Map([a \in {document.sels[i].alias : i \in 1..Len(document.sels)} |->
                EntityOf(document.sels[CHOOSE i \in 1..Len(document.sels) :
                                          document.sels[i].alias = a].id, kind)])

ChildResponseKinds(p, s) == IF Then(p, s) = <<>> THEN {"record"} ELSE ChildKinds

(***************************************************************************)
(* executeBoundaryQuery (src/execution2.go:151-177): what one document's   *)
(* response adds to the output.                                            *)
(***************************************************************************)
\* for _, value := range partialData { output = append(output, value) }:
\* Go ranges over a map in an unspecified order
RangeOrders(m) ==
    {[i \in 1..Cardinality(DOMAIN m.m) |-> m.m[f[i]]] :
        f \in {g \in [1..Cardinality(DOMAIN m.m) -> DOMAIN m.m] :
                \A i, j \in 1..Cardinality(DOMAIN m.m) : i # j => g[i] # g[j]}}

\* json decoding into struct{ Result []interface{} `json:"_result"` }:
\* an absent or null _result leaves the nil slice, a non-list is an error
DecodeResult(m) ==
    IF IsList(Get(m, "_result")) THEN [err |-> ErrNone, data |-> Get(m, "_result").s]
    ELSE IF IsNull(Get(m, "_result")) THEN [err |-> ErrNone, data |-> <<>>]
    ELSE [err |-> "json: cannot unmarshal into []interface{}", data |-> <<>>]

\* what the service answers a boundary document with: the entities asked
\* for, a mapping without the key _result, a null _result, a _result that
\* is no sequence
ResponseShapes == {"entities", "noResult", "nullResult", "notList"}
RespondAs(document, shape) ==
    CASE shape = "entities" -> Respond(document, "record")
      [] shape = "noResult" -> EmptyMap
      [] shape = "nullResult" -> Map("_result" :> Null)
      [] OTHER -> Map("_result" :> Str("x"))

errSingleDocument == "there should only be a single document for array boundary field lookups"

\* the outputs the loop over the documents can end with, from the i-th
\* document on: one per order in which the maps are ranged over
RECURSIVE boundaryOutputs(_, _, _, _)
boundaryOutputs(documents, i, output, shape) ==
    IF i > Len(documents) THEN {output}
    ELSE UNION {boundaryOutputs(documents, i + 1, output \o values, shape) :
                    values \in RangeOrders(RespondAs(documents[i], shape))}

\* executeBoundaryQuery with a client that returns no error: the outcomes
\* the call can have
executeBoundaryQuery(documents, boundaryFieldGetter, shape) ==
    IF ~boundaryFieldGetter.Array
    THEN {[err |-> ErrNone, data |-> o] : o \in boundaryOutputs(documents, 1, <<>>, shape)}
    ELSE IF Len(documents) # 1 THEN {[err |-> errSingleDocument, data |-> <<>>]}
    ELSE {DecodeResult(RespondAs(documents[1], shape))}

(***************************************************************************)
(* State of one request: QueryExecution2.Execute and the tasks it starts   *)
(* (src/execution2.go:50-149), and of one application of a pure function.  *)
(***************************************************************************)
VARIABLES
    plan,        \* the QueryPlan of the request
    mainPc,      \* where Execute is: "loop", "wait", "close", "readWait", "done"
    rootIdx,     \* index in RootSteps of the next iteration of Execute's loop
    stepWg,      \* counter of the wait group stepWg
    readWg,      \* counter of the wait group readWg
    chanClosed,  \* whether resultsChan is closed
    readerPc,    \* the draining goroutine: "idle", "recv", "append", "done"
    readerBuf,   \* the result the drainer has received and not yet appended
    results,     \* the slice results
    returned,    \* what Execute returned
    taskPc,      \* per step, its task: "idle", "start", "call", "send", "then", "done"
    taskData,    \* per step, the local variable data
    taskIds,     \* per step, the argument boundaryIDs
    childIdx,    \* per step, index in Then of the next iteration of the child loop
    docIdx,      \* per step, index of the document being executed
    output,      \* per step, the local variable output of executeBoundaryQuery
    panicked,    \* "" or the value the process panicked with
    cancelled,   \* whether the caller's context is cancelled
    calls,       \* per step, the number of calls made to the injected client
    skipped,     \* the steps whose id extraction returned errNilBoundaryData
    fnIn,        \* the input of a pure function under check
    fnOut,       \* its output
    fnPc         \* "idle", "in" or "out"

schedVars == <<plan, mainPc, rootIdx, stepWg, readWg, chanClosed, readerPc, readerBuf,
               results, returned, taskPc, taskData, taskIds, childIdx, docIdx, output,
               panicked, cancelled, calls, skipped>>
fnVars == <<fnIn, fnOut, fnPc>>
vars == <<plan, mainPc, rootIdx, stepWg, readWg, chanClosed, readerPc, readerBuf,
          results, returned, taskPc, taskData, taskIds, childIdx, docIdx, output,
          panicked, cancelled, calls, skipped, fnIn, fnOut, fnPc>>

NoResult == [step |-> 0, ServiceURL |-> "", InsertionPoint |-> <<>>, Data |-> Null]
NotReturned ==
    [valid |-> FALSE, results |-> <<>>, resultsNil |-> TRUE, errors |-> <<>>, errorsNil |-> TRUE]

\* ExecutionResult{step.ServiceURL, step.InsertionPoint, data}; step names the
\* plan step the result belongs to
ExecutionResult(s, data) ==
    [step |-> s, ServiceURL |-> Step(plan, s).ServiceURL,
     InsertionPoint |-> Step(plan, s).InsertionPoint, Data |-> data]

InitSched(p) ==
    /\ plan = p
    /\ mainPc = "loop"
    /\ rootIdx = 1
    /\ stepWg = 0
    /\ readWg = 0
    /\ chanClosed = FALSE
    /\ readerPc = "idle"
    /\ readerBuf = NoResult
    /\ results = <<>>
    /\ returned = NotReturned
    /\ taskPc = [s \in Steps |-> "idle"]
    /\ taskData = [s \in Steps |-> Null]
    /\ taskIds = [s \in Steps |-> <<>>]
    /\ childIdx = [s \in Steps |-> 1]
    /\ docIdx = [s \in Steps |-> 1]
    /\ output = [s \in Steps |-> <<>>]
    /\ panicked = ""
    /\ cancelled = FALSE
    /\ calls = [s \in Steps |-> 0]
    /\ skipped = {}

FnIdle == fnIn = Null /\ fnOut = Null /\ fnPc = "idle"

Init ==
    /\ \E p \in Plans : InitSched(p)
    /\ FnIdle

(***************************************************************************)
(* QueryExecution2.Execute (src/execution2.go:50-79)                       *)
(***************************************************************************)
\* one iteration of the loop over queryPlan.RootSteps
ExecuteLoop ==
    /\ panicked = "" /\ mainPc = "loop" /\ rootIdx <= Len(RootSteps(plan))
    /\ LET s == RootSteps(plan)[rootIdx]
           step == Step(plan, s)
           internal == step.ServiceURL = internalServiceName
           r == ExecuteBrambleStep(step)
       IN IF internal /\ r.err # ErrNone
          THEN \* return nil, []*gqlerror.List{}
               /\ mainPc' = "done"
               /\ returned' = [valid |-> TRUE, results |-> <<>>, resultsNil |-> TRUE,
                               errors |-> <<>>, errorsNil |-> FALSE]
               /\ UNCHANGED <<rootIdx, stepWg, results, taskPc>>
          ELSE /\ results' = IF internal THEN Append(results, [step |-> s] @@ r.result)
                             ELSE results
               /\ stepWg' = stepWg + 1
               /\ taskPc' = [taskPc EXCEPT ![s] = "start"]
               /\ rootIdx' = rootIdx + 1
               /\ UNCHANGED <<mainPc, returned>>
    /\ UNCHANGED <<plan, readWg, chanClosed, readerPc, readerBuf, taskData, taskIds,
                   childIdx, docIdx, output, panicked, cancelled, calls, skipped, fnVars>>

\* readWg.Add(1); go func() { for result := range resultsChan ... }()
ExecuteStartReader ==
    /\ panicked = "" /\ mainPc = "loop" /\ rootIdx > Len(RootSteps(plan))
    /\ readWg' = readWg + 1
    /\ readerPc' = "recv"
    /\ mainPc' = "wait"
    /\ UNCHANGED <<plan, rootIdx, stepWg, chanClosed, readerBuf, results, returned, taskPc,
                   taskData, taskIds, childIdx, docIdx, output, panicked, cancelled, calls,
                   skipped, fnVars>>

\* stepWg.Wait()
ExecuteWait ==
    /\ panicked = "" /\ mainPc = "wait" /\ stepWg = 0
    /\ mainPc' = "close"
    /\ UNCHANGED <<plan, rootIdx, stepWg, readWg, chanClosed, readerPc, readerBuf, results,
                   returned, taskPc, taskData, taskIds, childIdx, docIdx, output, panicked,
                   cancelled, calls, skipped, fnVars>>

\* close(resultsChan)
ExecuteClose ==
    /\ panicked = "" /\ mainPc = "close"
    /\ chanClosed' = TRUE
    /\ mainPc' = "readWait"
    /\ UNCHANGED <<plan, rootIdx, stepWg, readWg, readerPc, readerBuf, results, returned,
                   taskPc, taskData, taskIds, childIdx, docIdx, output, panicked, cancelled,
                   calls, skipped, fnVars>>

\* readWg.Wait(); return results, nil
ExecuteReturn ==
    /\ panicked = "" /\ mainPc = "readWait" /\ readWg = 0
    /\ mainPc' = "done"
    /\ returned' = [valid |-> TRUE, results |-> results, resultsNil |-> FALSE,
                    errors |-> <<>>, errorsNil |-> TRUE]
    /\ UNCHANGED <<plan, rootIdx, stepWg, readWg, chanClosed, readerPc, readerBuf, results,
                   taskPc, taskData, taskIds, childIdx, docIdx, output, panicked, cancelled,
                   calls, skipped, fnVars>>

\* results = append(results, result) in the draining goroutine
ReaderAppend ==
    /\ panicked = "" /\ readerPc = "append"
    /\ results' = Append(results, readerBuf)
    /\ readerBuf' = NoResult
    /\ readerPc' = "recv"
    /\ UNCHANGED <<plan, mainPc, rootIdx, stepWg, readWg, chanClosed, returned, taskPc,
                   taskData, taskIds, childIdx, docIdx, output, panicked, cancelled, calls,
                   skipped, fnVars>>

\* the range over the closed channel ends; readWg.Done()
ReaderExit ==
    /\ panicked = "" /\ readerPc = "recv" /\ chanClosed
    /\ readWg' = readWg - 1
    /\ readerPc' = "done"
    /\ UNCHANGED <<plan, mainPc, rootIdx, stepWg, chanClosed, readerBuf, results, returned,
                   taskPc, taskData, taskIds, childIdx, docIdx, output, panicked, cancelled,
                   calls, skipped, fnVars>>

(***************************************************************************)
(* What ExecuteRootStep and executeChildStep share, statement by statement *)
(***************************************************************************)
\* SendResult with the send left to another goroutine: the task goes on
\* without waiting for the drainer to receive
MutSendResult(s) ==
    /\ panicked = "" /\ taskPc[s] = "send"
    /\ taskPc' = [taskPc EXCEPT ![s] = "then"]
    /\ childIdx' = [childIdx EXCEPT ![s] = 1]
    /\ UNCHANGED <<plan, mainPc, rootIdx, stepWg, readWg, chanClosed, readerPc, readerBuf,
                   results, returned, taskData, taskIds, docIdx, output, panicked, cancelled,
                   calls, skipped, fnVars>>

\* resultsChan <- ExecutionResult{...}: the channel is unbuffered, the send
\* completes when the drainer receives; a send on a closed channel panics
SendResult(s) ==
    /\ panicked = "" /\ taskPc[s] = "send"
    /\ IF chanClosed
       THEN /\ panicked' = "send on closed channel"
            /\ UNCHANGED <<readerPc, readerBuf, taskPc, childIdx>>
       ELSE /\ readerPc = "recv"
            /\ readerPc' = "append"
            /\ readerBuf' = ExecutionResult(s, taskData[s])
            /\ taskPc' = [taskPc EXCEPT ![s] = "then"]
            /\ childIdx' = [childIdx EXCEPT ![s] = 1]
            /\ UNCHANGED panicked
    /\ UNCHANGED <<plan, mainPc, rootIdx, stepWg, readWg, chanClosed, results, returned,
                   taskData, taskIds, docIdx, output, cancelled, calls, skipped, fnVars>>

\* LaunchChildStep without waitGroup.Add(1)
MutLaunchNoAdd(s, childStep, insertionPoint) ==
    LET r == extractBoundaryIDs(taskData[s], insertionPoint) IN
    /\ childIdx' = [childIdx EXCEPT ![s] = @ + 1]
    /\ IF r.err = errNilBoundaryData
       THEN /\ skipped' = skipped \cup {childStep}
            /\ UNCHANGED <<stepWg, taskPc, taskIds, panicked>>
       ELSE IF r.err # ErrNone
       THEN /\ panicked' = r.err
            /\ UNCHANGED <<stepWg, taskPc, taskIds, skipped>>
       ELSE /\ taskPc' = [taskPc EXCEPT ![childStep] = "start"]
            /\ taskIds' = [taskIds EXCEPT ![childStep] = r.ids]
            /\ UNCHANGED <<stepWg, skipped, panicked>>
    /\ UNCHANGED <<plan, mainPc, rootIdx, readWg, chanClosed, readerPc, readerBuf, results,
                   returned, taskData, docIdx, output, cancelled, calls, fnVars>>

\* LaunchChildStep without the errNilBoundaryData check: the child is
\* launched with no ids
MutLaunchOnNil(s, childStep, insertionPoint) ==
    LET r == extractBoundaryIDs(taskData[s], insertionPoint) IN
    /\ childIdx' = [childIdx EXCEPT ![s] = @ + 1]
    /\ IF r.err = errNilBoundaryData
       THEN /\ skipped' = skipped \cup {childStep}
            /\ stepWg' = stepWg + 1
            /\ taskPc' = [taskPc EXCEPT ![childStep] = "start"]
            /\ taskIds' = [taskIds EXCEPT ![childStep] = <<>>]
            /\ UNCHANGED panicked
       ELSE IF r.err # ErrNone
       THEN /\ panicked' = r.err
            /\ UNCHANGED <<stepWg, taskPc, taskIds, skipped>>
       ELSE /\ stepWg' = stepWg + 1
            /\ taskPc' = [taskPc EXCEPT ![childStep] = "start"]
            /\ taskIds' = [taskIds EXCEPT ![childStep] = r.ids]
            /\ UNCHANGED <<skipped, panicked>>
    /\ UNCHANGED <<plan, mainPc, rootIdx, readWg, chanClosed, readerPc, readerBuf, results,
                   returned, taskData, docIdx, output, cancelled, calls, fnVars>>

\* one iteration of the loop over step.Then; insertionPoint is the path the
\* ids of childStep are extracted at
LaunchChildStep(s, childStep, insertionPoint) ==
    LET r == extractBoundaryIDs(taskData[s], insertionPoint) IN
    /\ childIdx' = [childIdx EXCEPT ![s] = @ + 1]
    /\ IF r.err = errNilBoundaryData
       THEN \* continue
            /\ skipped' = skipped \cup {childStep}
            /\ UNCHANGED <<stepWg, taskPc, taskIds, panicked>>
       ELSE IF r.err # ErrNone
       THEN /\ panicked' = r.err
            /\ UNCHANGED <<stepWg, taskPc, taskIds, skipped>>
       ELSE \* waitGroup.Add(1); go q.executeChildStep(...)
            /\ stepWg' = stepWg + 1
            /\ taskPc' = [taskPc EXCEPT ![childStep] = "start"]
            /\ taskIds' = [taskIds EXCEPT ![childStep] = r.ids]
            /\ UNCHANGED <<skipped, panicked>>
    /\ UNCHANGED <<plan, mainPc, rootIdx, readWg, chanClosed, readerPc, readerBuf, results,
                   returned, taskData, docIdx, output, cancelled, calls, fnVars>>

\* the deferred waitGroup.Done() when the function returns
TaskDone(s) ==
    /\ panicked = "" /\ taskPc[s] = "then" /\ childIdx[s] > Len(Then(plan, s))
    /\ stepWg' = stepWg - 1
    /\ taskPc' = [taskPc EXCEPT ![s] = "done"]
    /\ UNCHANGED <<plan, mainPc, rootIdx, readWg, chanClosed, readerPc, readerBuf, results,
                   returned, taskData, taskIds, childIdx, docIdx, output, panicked, cancelled,
                   calls, skipped, fnVars>>

(***************************************************************************)
(* QueryExecution2.ExecuteRootStep (src/execution2.go:81-116)              *)
(***************************************************************************)
\* the document is built and handed to the client
RootStart(s) ==
    /\ panicked = "" /\ IsRoot(plan, s) /\ taskPc[s] = "start"
    /\ IF Step(plan, s).ParentType \in {"Query", "Mutation"}
       THEN /\ taskPc' = [taskPc EXCEPT ![s] = "call"]
            /\ calls' = [calls EXCEPT ![s] = @ + 1]
            /\ UNCHANGED panicked
       ELSE /\ panicked' = "non mutation or query root step"
            /\ UNCHANGED <<taskPc, calls>>
    /\ UNCHANGED <<plan, mainPc, rootIdx, stepWg, readWg, chanClosed, readerPc, readerBuf,
                   results, returned, taskData, taskIds, childIdx, docIdx, output, cancelled,
                   skipped, fnVars>>

\* q.executeDocument returns: an error panics, data goes on to the send
RootClientReturn(s) ==
    /\ panicked = "" /\ IsRoot(plan, s) /\ taskPc[s] = "call"
    /\ \/ /\ panicked' = "client error"
          /\ UNCHANGED <<taskPc, taskData>>
       \/ \E d \in RootResponses(plan, s) :
            /\ taskData' = [taskData EXCEPT ![s] = d]
            /\ taskPc' = [taskPc EXCEPT ![s] = "send"]
            /\ UNCHANGED panicked
    /\ UNCHANGED <<plan, mainPc, rootIdx, stepWg, readWg, chanClosed, readerPc, readerBuf,
                   results, returned, taskIds, childIdx, docIdx, output, cancelled, calls,
                   skipped, fnVars>>

RootSend(s) == IsRoot(plan, s) /\ SendResult(s)

RootLaunchChild(s) ==
    /\ panicked = "" /\ IsRoot(plan, s) /\ taskPc[s] = "then"
    /\ childIdx[s] <= Len(Then(plan, s))
    /\ LET childStep == Then(plan, s)[childIdx[s]] IN
       LaunchChildStep(s, childStep, Step(plan, childStep).InsertionPoint)

RootDone(s) == IsRoot(plan, s) /\ TaskDone(s)

(***************************************************************************)
(* QueryExecution2.executeChildStep (src/execution2.go:118-149) with       *)
(* executeBoundaryQuery (src/execution2.go:151-177)                        *)
(***************************************************************************)
Documents(s) == buildBoundaryQueryDocuments(taskIds[s], BoundaryQueryOf(plan, s), BatchSize)

\* the documents are built and the first is handed to the client
ChildStart(s) ==
    /\ panicked = "" /\ ~IsRoot(plan, s) /\ taskPc[s] = "start"
    /\ IF BoundaryQueryOf(plan, s).Array /\ Len(Documents(s)) # 1
       THEN /\ panicked' = "there should only be a single document for array boundary field lookups"
            /\ UNCHANGED <<taskPc, calls, docIdx, output>>
       ELSE /\ taskPc' = [taskPc EXCEPT ![s] = "call"]
            /\ calls' = [calls EXCEPT ![s] = @ + 1]
            /\ docIdx' = [docIdx EXCEPT ![s] = 1]
            /\ output' = [output EXCEPT ![s] = <<>>]
            /\ UNCHANGED panicked
    /\ UNCHANGED <<plan, mainPc, rootIdx, stepWg, readWg, chanClosed, readerPc, readerBuf,
                   results, returned, taskData, taskIds, childIdx, cancelled, skipped, fnVars>>

\* q.executeDocument returns inside executeBoundaryQuery
ChildClientReturn(s) ==
    /\ panicked = "" /\ ~IsRoot(plan, s) /\ taskPc[s] = "call"
    /\ \/ /\ panicked' = "client error"
          /\ UNCHANGED <<taskPc, taskData, docIdx, output, calls>>
       \/ \E kind \in ChildResponseKinds(plan, s) :
            LET resp == Respond(Documents(s)[docIdx[s]], kind) IN
            IF BoundaryQueryOf(plan, s).Array
            THEN LET dec == DecodeResult(resp) IN
                 IF dec.err # ErrNone
                 THEN /\ panicked' = dec.err
                      /\ UNCHANGED <<taskPc, taskData, docIdx, output, calls>>
                 ELSE /\ taskData' = [taskData EXCEPT ![s] = List(dec.data)]
                      /\ taskPc' = [taskPc EXCEPT ![s] = "send"]
                      /\ UNCHANGED <<panicked, docIdx, output, calls>>
            ELSE \E values \in RangeOrders(resp) :
                 IF docIdx[s] < Len(Documents(s))
                 THEN /\ output' = [output EXCEPT ![s] = @ \o values]
                      /\ docIdx' = [docIdx EXCEPT ![s] = @ + 1]
                      /\ calls' = [calls EXCEPT ![s] = @ + 1]
                      /\ UNCHANGED <<panicked, taskPc, taskData>>
                 ELSE /\ taskData' = [taskData EXCEPT ![s] = List(output[s] \o values)]
                      /\ taskPc' = [taskPc EXCEPT ![s] = "send"]
                      /\ UNCHANGED <<panicked, docIdx, output, calls>>
    /\ UNCHANGED <<plan, mainPc, rootIdx, stepWg, readWg, chanClosed, readerPc, readerBuf,
                   results, returned, taskIds, childIdx, cancelled, skipped, fnVars>>

ChildSend(s) == ~IsRoot(plan, s) /\ SendResult(s)

\* extractBoundaryIDs(data, childStep.InsertionPoint[1:])
ChildLaunchChild(s) ==
    /\ panicked = "" /\ ~IsRoot(plan, s) /\ taskPc[s] = "then"
    /\ childIdx[s] <= Len(Then(plan, s))
    /\ LET childStep == Then(plan, s)[childIdx[s]] IN
       LaunchChildStep(s, childStep, Tail(Step(plan, childStep).InsertionPoint))

ChildDone(s) == ~IsRoot(plan, s) /\ TaskDone(s)

(***************************************************************************)
(* The caller cancels the context handed to Execute.                       *)
(***************************************************************************)
Cancel ==
    /\ panicked = "" /\ ~cancelled /\ mainPc # "done"
    /\ cancelled' = TRUE
    /\ UNCHANGED <<plan, mainPc, rootIdx, stepWg, readWg, chanClosed, readerPc, readerBuf,
                   results, returned, taskPc, taskData, taskIds, childIdx, docIdx, output,
                   panicked, calls, skipped, fnVars>>

Next ==
    \/ ExecuteLoop
    \/ ExecuteStartReader
    \/ ExecuteWait
    \/ ExecuteClose
    \/ ExecuteReturn
    \/ ReaderAppend
    \/ ReaderExit
    \/ \E s \in Steps : RootStart(s)
    \/ \E s \in Steps : RootClientReturn(s)
    \/ \E s \in Steps : RootSend(s)
    \/ \E s \in Steps : RootLaunchChild(s)
    \/ \E s \in Steps : RootDone(s)
    \/ \E s \in Steps : ChildStart(s)
    \/ \E s \in Steps : ChildClientReturn(s)
    \/ \E s \in Steps : ChildSend(s)
    \/ \E s \in Steps : ChildLaunchChild(s)
    \/ \E s \in Steps : ChildDone(s)
    \/ Cancel

Spec == Init /\ [][Next]_vars

(***************************************************************************)
(* Applications of the pure functions, one specification per function.     *)
(***************************************************************************)
\* the plan the scheduler variables rest at while a pure function is checked
IdlePlan ==
    [parent |-> [s \in Steps |-> 0],
     kind |-> [s \in Steps |->
                 [ServiceURL |-> "svc", ParentType |-> "Query", SelectionSet |-> SelService]],
     first |-> <<"a">>, Array |-> [s \in Steps |-> FALSE]]

\* terminal parent records: keyed _id, keyed id, keyed both, a non-string
\* _id beside a string id, no identifier
TerminalRecords ==
    {Rec("_id", "1"), Rec("id", "1"),
     Map("_id" :> Str("2") @@ "id" :> Str("5")),
     Map("_id" :> Num(3) @@ "id" :> Str("5")),
     RecNoID}
TerminalValues == TerminalRecords \cup {Null, Str("x")}
\* what the elements of an inner sequence are
InnerElements == {Rec("_id", "1"), Map("_id" :> Str("2") @@ "id" :> Str("5")), Null}
InnerValues == TerminalValues \cup {List(q) : q \in SeqsUpTo(InnerElements, MaxInner)}
NestedElements ==
    {List(q) : q \in SeqsUpTo({Map("owner" :> Rec("_id", "1")),
                               Map("owner" :> Map("_id" :> Str("2") @@ "id" :> Str("5")))},
                              MaxInner)}
Elements ==
    {Map("owner" :> v) : v \in InnerValues} \cup {Null, Rec("id", "9")} \cup NestedElements
OuterValues == Elements \cup {List(q) : q \in SeqsUpTo(Elements, MaxLen)}

ExtractInputs ==
    {[data |-> d, insertionPoint |-> <<>>] : d \in InnerValues}
    \cup {[data |-> d, insertionPoint |-> <<"owner">>] : d \in OuterValues}
    \cup {[data |-> Map("gizmos" :> d), insertionPoint |-> <<"gizmos", "owner">>] :
            d \in OuterValues}

InitExtract ==
    /\ InitSched(IdlePlan)
    /\ fnPc = "in" /\ fnOut = Null
    /\ fnIn \in ExtractInputs

ApplyExtract ==
    /\ fnPc = "in"
    /\ fnOut' = extractBoundaryIDs(fnIn.data, fnIn.insertionPoint)
    /\ fnPc' = "out"
    /\ UNCHANGED <<schedVars, fnIn>>

NextExtract == ApplyExtract

SpecExtract == InitExtract /\ [][NextExtract]_vars

\* the arguments of buildBoundaryQueryDocuments: id lists with repeated
\* ids, both shapes of boundary query, batch sizes from 1
BuildInputs ==
    {[ids |-> i, parentTypeBoundaryField |-> [Query |-> "getOwner", Array |-> a],
      batchSize |-> b] :
        i \in SeqsUpTo({"1", "2"}, MaxIds), a \in BOOLEAN, b \in 1..MaxBatch}

InitBuild ==
    /\ InitSched(IdlePlan)
    /\ fnPc = "in" /\ fnOut = Null
    /\ fnIn \in BuildInputs

ApplyBuild ==
    /\ fnPc = "in"
    /\ fnOut' = buildBoundaryQueryDocuments(fnIn.ids, fnIn.parentTypeBoundaryField,
                                            fnIn.batchSize)
    /\ fnPc' = "out"
    /\ UNCHANGED <<schedVars, fnIn>>

NextBuild == ApplyBuild

SpecBuild == InitBuild /\ [][NextBuild]_vars

\* The results of one request, for the merger: a first root step serving
\* gizmos (one record or a sequence of them), a second root step of another
\* service, a child step of the first adding the owners' names, a child of
\* that child adding the age of the owners' pets.  With namespaced set, both
\* root steps serve their fields under the namespace field "namespace".
OwnerIdOf(i) == IF i % 2 = 1 THEN "4" ELSE "5"
OwnerKeyOf(i) == IF i % 2 = 1 THEN "_id" ELSE "id"
Gizmo(i) == Map("id" :> Str(ToString(i)) @@ "owner" :> Rec(OwnerKeyOf(i), OwnerIdOf(i)))
Owner(key, id, withPet) ==
    IF withPet
    THEN Map(key :> Str(id) @@ "name" :> Str("Owner" \o id) @@ "pet" :> Rec("id", "9"))
    ELSE Map(key :> Str(id) @@ "name" :> Str("Owner" \o id))

Under(namespaced, path) == IF namespaced THEN <<"namespace">> \o path ELSE path

Scenarios ==
    { [namespaced |-> ns, gizmos |-> g, entityKey |-> k, children |-> c] :
        ns \in BOOLEAN,
        g \in {Gizmo(1)} \cup {List([i \in 1..n |-> Gizmo(i)]) : n \in 1..MaxLen},
        k \in {"_id", "id"},
        c \in 0..2 }

\* the results of a scenario, each root step before its children
ResultsOf(sc) ==
    LET root1 == [ServiceURL |-> "a", InsertionPoint |-> <<>>,
                  Data |-> Wrap(Under(sc.namespaced, <<"gizmos">>), sc.gizmos)]
        root2 == [ServiceURL |-> "b", InsertionPoint |-> <<>>,
                  Data |-> Wrap(Under(sc.namespaced, <<"version">>), Str("v1"))]
        child == [ServiceURL |-> "c",
                  InsertionPoint |-> Under(sc.namespaced, <<"gizmos", "owner">>),
                  Data |-> List(<<Owner(sc.entityKey, "4", sc.children = 2),
                                  Owner(sc.entityKey, "5", sc.children = 2)>>)]
        grandchild == [ServiceURL |-> "d",
                       InsertionPoint |-> Under(sc.namespaced, <<"gizmos", "owner", "pet">>),
                       Data |-> List(<<Map("_id" :> Str("9") @@ "age" :> Num(3))>>)]
    IN CASE sc.children = 0 -> <<root1, root2>>
         [] sc.children = 1 -> <<root1, root2, child>>
         [] OTHER -> <<root1, root2, child, grandchild>>

\* index of the parent result in ResultsOf, 0 for the result of a root step
ParentResult(i) == IF i <= 2 THEN 0 ELSE IF i = 3 THEN 1 ELSE 3

\* the orders Execute can return n results in: every order of completion
\* that keeps each parent before its children
ReturnOrders(n) ==
    {f \in [1..n -> 1..n] :
        /\ \A i, j \in 1..n : i # j => f[i] # f[j]
        /\ \A i \in 1..n : ParentResult(f[i]) # 0 =>
                \E j \in 1..(i - 1) : f[j] = ParentResult(f[i])}

MergeInputs ==
    UNION {{[scenario |-> sc, order |-> f,
             results |-> [i \in 1..Len(ResultsOf(sc)) |-> ResultsOf(sc)[f[i]]]] :
              f \in ReturnOrders(Len(ResultsOf(sc)))} : sc \in Scenarios}

InitMerge ==
    /\ InitSched(IdlePlan)
    /\ fnPc = "in" /\ fnOut = Null
    /\ fnIn \in MergeInputs

ApplyMerge ==
    /\ fnPc = "in"
    /\ fnOut' = mergeExecutionResults(fnIn.results)
    /\ fnPc' = "out"
    /\ UNCHANGED <<schedVars, fnIn>>

NextMerge == ApplyMerge

SpecMerge == InitMerge /\ [][NextMerge]_vars

\* The child splice: a root result holding parent records under "owners"
\* (one record or a sequence of them, several of which may share an id) and
\* a child result holding the entities a service returned for them.  Records
\* and entities are keyed _id, id, or both with _id the identifier.
SpliceIds == {"4", "5"}
ParentRecords ==
    UNION {{Map("_id" :> Str(i) @@ "color" :> Str("RED")),
            Map("id" :> Str(i) @@ "color" :> Str("RED")),
            Map("_id" :> Str(i) @@ "id" :> Str("0") @@ "color" :> Str("RED"))} :
           i \in SpliceIds}
Entities ==
    UNION {{Map("_id" :> Str(i) @@ "name" :> Str("Owner" \o i)),
            Map("id" :> Str(i) @@ "name" :> Str("Owner" \o i)),
            Map("_id" :> Str(i) @@ "id" :> Str("0") @@ "name" :> Str("Owner" \o i))} :
           i \in SpliceIds}

SpliceInput(ps, es) ==
    [parents |-> ps, entities |-> es,
     results |-> <<[ServiceURL |-> "a", InsertionPoint |-> <<>>,
                    Data |-> Map("owners" :> ps)],
                   [ServiceURL |-> "b", InsertionPoint |-> <<"owners">>,
                    Data |-> List(es)]>>]

InitSplice ==
    /\ InitSched(IdlePlan)
    /\ fnPc = "in" /\ fnOut = Null
    /\ \E ps \in ParentRecords
                   \cup {List(q) : q \in SeqsUpTo(ParentRecords, MaxLen) \ {<<>>}},
          es \in SeqsUpTo(Entities, MaxLen) :
            fnIn = SpliceInput(ps, es)

SpecSplice == InitSplice /\ [][NextMerge]_vars

\* The trees handed to the null bubbler: under depth wrapper fields w, of
\* which at most one is nullable, a field pets holding null or a sequence of
\* pets; a pet is a Cat or a Dog (both implement Animal) with a non-null
\* name and a nullable tag, either of which may be null, and an element of
\* the sequence may itself be null.  The fields are selected directly or in
\* fragments on Cat or on Animal.
PetSelectionSets ==
    {<<ScalarField("name", TRUE), ScalarField("tag", FALSE)>>,
     <<ScalarField("tag", FALSE), ScalarField("name", TRUE)>>,
     <<InlineFragment("Cat", <<ScalarField("name", TRUE)>>), ScalarField("tag", FALSE)>>,
     <<FragmentSpread("Animal", <<ScalarField("name", TRUE)>>), ScalarField("tag", FALSE)>>,
     <<InlineFragment("Cat", <<ScalarField("name", TRUE)>>),
       InlineFragment("Animal", <<ScalarField("tag", FALSE)>>)>>}

Pet(name, tag) == Map("__typename" :> Str("Cat") @@ "name" :> name @@ "tag" :> tag)
Dog(name, tag) == Map("__typename" :> Str("Dog") @@ "name" :> name @@ "tag" :> tag)
PetElements ==
    {Pet(n, t) : n \in {Str("n"), Null}, t \in {Str("t"), Null}}
        \cup {Dog(n, Str("t")) : n \in {Str("n"), Null}} \cup {Null}
PetsValues == {Null} \cup {List(q) : q \in SeqsUpTo(PetElements, MaxLen)}

\* the selection set and the tree of depth wrappers around pets; the
\* wrapper at level nullableAt is nullable, the others are non-null
RECURSIVE WrapSelection(_, _, _)
WrapSelection(depth, nullableAt, inner) ==
    IF depth = 0 THEN <<inner>>
    ELSE <<TypedField("w", depth # nullableAt, FALSE,
                      WrapSelection(depth - 1, nullableAt, inner))>>
RECURSIVE WrapValue(_, _)
WrapValue(depth, v) ==
    IF depth = 0 THEN Map("pets" :> v) ELSE Map("w" :> WrapValue(depth - 1, v))

BubbleInput(d, k, nn, enn, sel, v) ==
    [depth |-> d, nullableAt |-> k, pets |-> v,
     petsNonNull |-> nn, elemNonNull |-> enn, petSelection |-> sel,
     selectionSet |-> WrapSelection(d, k, TypedField("pets", nn, enn, sel)),
     result |-> WrapValue(d, v)]

InitBubble ==
    /\ InitSched(IdlePlan)
    /\ fnPc = "in" /\ fnOut = Null
    /\ \E d \in 0..MaxDepth, nn \in BOOLEAN, enn \in BOOLEAN,
          sel \in PetSelectionSets, v \in PetsValues :
            \E k \in 0..d : fnIn = BubbleInput(d, k, nn, enn, sel, v)

ApplyBubble ==
    /\ fnPc = "in"
    /\ fnOut' = bubbleUpNullValuesInPlace(Schema, fnIn.selectionSet, fnIn.result)
    /\ fnPc' = "out"
    /\ UNCHANGED <<schedVars, fnIn>>

\* bubbleUpNullValuesInPlace is run again on the tree a first run that
\* returned without error has left
ApplyBubbleAgain ==
    /\ fnPc = "out" /\ fnOut.err = ErrNone
    /\ fnOut' = [first |-> fnOut,
                 second |-> bubbleUpNullValuesInPlace(Schema, fnIn.selectionSet,
                                                      fnOut.result)]
    /\ fnPc' = "again"
    /\ UNCHANGED <<schedVars, fnIn>>

NextBubble == ApplyBubble \/ ApplyBubbleAgain

SpecBubble == InitBubble /\ [][NextBubble]_vars

\* The trees handed to the formatter: under the field pets a record, null or
\* a sequence of records.  A record is a Cat or a Dog with the field of its
\* own type (purr, bark), of both types or of neither, with name and owner
\* set or null; one record holds nothing but its type and its id, and one
\* has an owner without name.
FormatSelectionSets ==
    {<<ScalarField("id", TRUE), ScalarField("name", FALSE)>>,
     <<ScalarField("name", FALSE), ScalarField("id", TRUE)>>,
     <<ScalarField("id", TRUE),
       TypedField("owner", FALSE, FALSE, <<ScalarField("name", TRUE), ScalarField("id", TRUE)>>)>>,
     <<TypedField("owner", FALSE, FALSE, <<ScalarField("id", TRUE), ScalarField("name", TRUE)>>),
       ScalarField("id", TRUE)>>,
     <<ScalarField("id", TRUE), InlineFragment("Cat", <<ScalarField("purr", FALSE)>>),
       InlineFragment("Dog", <<ScalarField("bark", FALSE)>>)>>,
     <<FragmentSpread("Dog", <<ScalarField("bark", FALSE)>>), ScalarField("id", TRUE),
       FragmentSpread("Animal", <<ScalarField("name", FALSE)>>)>>}

FormatOwner == Map("id" :> Str("2") @@ "name" :> Str("o"))
FormatRecord(typename, keys, set) ==
    Map([k \in {"__typename", "id", "name", "owner"} \cup keys |->
            CASE k = "__typename" -> Str(typename)
              [] k = "id" -> Str("1")
              [] k = "name" -> IF set THEN Str("n") ELSE Null
              [] k = "owner" -> IF set THEN FormatOwner ELSE Null
              [] OTHER -> Str(k)])
FormatRecords ==
    {FormatRecord(t, keys, set) :
        t \in {"Cat", "Dog"}, keys \in {{}, {"purr"}, {"bark"}, {"purr", "bark"}},
        set \in BOOLEAN}
        \cup {Map("__typename" :> Str("Cat") @@ "id" :> Str("1")),
              Map("__typename" :> Str("Cat") @@ "id" :> Str("1") @@ "name" :> Str("n")
                  @@ "owner" :> Map("id" :> Str("2")))}
FormatValues ==
    {Null} \cup FormatRecords \cup {List(q) : q \in SeqsUpTo(FormatRecords, MaxLen)}

FormatInput(sel, v) ==
    [petSelection |-> sel, pets |-> v,
     selectionSet |-> <<TypedField("pets", FALSE, FALSE, sel)>>,
     result |-> Map("pets" :> v)]

InitFormat ==
    /\ InitSched(IdlePlan)
    /\ fnPc = "in" /\ fnOut = Null
    /\ \E sel \in FormatSelectionSets, v \in FormatValues : fnIn = FormatInput(sel, v)

ApplyFormat ==
    /\ fnPc = "in"
    /\ fnOut' = formatResponseBody(fnIn.selectionSet, fnIn.result)
    /\ fnPc' = "out"
    /\ UNCHANGED <<schedVars, fnIn>>

NextFormat == ApplyFormat

SpecFormat == InitFormat /\ [][NextFormat]_vars

\* The calls of executeBoundaryQuery: the documents buildBoundaryQueryDocuments
\* gives for the ids and the boundary query (built holds Array), or, for an
\* array boundary query, the documents of the non-array shape (a builder
\* bug), and the shape of the service's answers.
BoundaryInput(ids, array, built, batchSize, shape) ==
    [ids |-> ids, batchSize |-> batchSize, shape |-> shape,
     boundaryFieldGetter |-> [Query |-> "getOwner", Array |-> array],
     documents |-> buildBoundaryQueryDocuments(ids, [Query |-> "getOwner", Array |-> built],
                                               batchSize)]

InitBoundary ==
    /\ InitSched(IdlePlan)
    /\ fnPc = "in" /\ fnOut = Null
    /\ \E ids \in SeqsUpTo({"1", "2"}, MaxIds), array \in BOOLEAN, built \in BOOLEAN,
          batchSize \in 1..MaxBatch, shape \in ResponseShapes :
            /\ built # array => (array /\ shape = "entities")
            /\ ~array => shape = "entities"
            /\ fnIn = BoundaryInput(ids, array, built, batchSize, shape)

ApplyBoundary ==
    /\ fnPc = "in"
    /\ fnOut' \in executeBoundaryQuery(fnIn.documents, fnIn.boundaryFieldGetter, fnIn.shape)
    /\ fnPc' = "out"
    /\ UNCHANGED <<schedVars, fnIn>>

NextBoundary == ApplyBoundary

SpecBoundary == InitBoundary /\ [][NextBoundary]_vars

\* Extraction and merge of one child step: the ids are extracted from the
\* parent data at the step's insertion point, the service returns one entity
\* per id with the field x, and the step's result is merged into the same
\* data at the same insertion point.
EntityFor(id) == Map("_id" :> Str(id) @@ "x" :> Str("v"))
EntitiesFor(ids) == List([i \in 1..Len(ids) |-> EntityFor(ids[i])])

InitAgree ==
    /\ InitSched(IdlePlan)
    /\ fnPc = "in" /\ fnOut = Null
    /\ fnIn \in ExtractInputs

ApplyAgree ==
    /\ fnPc = "in"
    /\ LET r == extractBoundaryIDs(fnIn.data, fnIn.insertionPoint) IN
       fnOut' = [err |-> r.err, ids |-> r.ids,
                 merged |-> IF r.err = ErrNone
                            THEN mergeExecutionResultsRec(EntitiesFor(r.ids), fnIn.data,
                                                          fnIn.insertionPoint)
                            ELSE [err |-> ErrNone, dst |-> fnIn.data]]
    /\ fnPc' = "out"
    /\ UNCHANGED <<schedVars, fnIn>>

NextAgree == ApplyAgree

SpecAgree == InitAgree /\ [][NextAgree]_vars

(***************************************************************************)
(* Properties of the step scheduler                                        *)
(***************************************************************************)
\* the steps whose task is launched and has not returned
LiveTasks == {s \in Steps : taskPc[s] \notin {"idle", "done"}}

\* the steps whose result the drainer has received
Handed == {results[i].step : i \in 1..Len(results)} \cup {readerBuf.step}

NormalReturn == returned.valid /\ ~returned.resultsNil
EarlyReturn == returned.valid /\ returned.resultsNil

\* C1: a child step's task is launched only after its parent's result was
\* handed to the results channel, and in the slice Execute returns every
\* child step's result comes after the result of its parent step
C1_ParentBeforeChildren ==
    /\ \A c \in Steps :
        (~IsRoot(plan, c) /\ taskPc[c] # "idle") => plan.parent[c] \in Handed
    /\ NormalReturn =>
        \A i, j \in 1..Len(returned.results) :
            returned.results[i].step = plan.parent[returned.results[j].step] => i < j

C1_Witness ==
    /\ NormalReturn
    /\ \E j \in 1..Len(returned.results) :
        LET c == returned.results[j].step IN
        ~IsRoot(plan, c) /\ ~IsRoot(plan, plan.parent[c])

\* C2: the results channel is closed only after every step task has
\* finished: the step wait group counts exactly the tasks launched and not
\* returned, so it is zero only when none runs, and no task sends on the
\* closed channel
C2_CloseAfterAllTasks ==
    /\ stepWg = Cardinality(LiveTasks)
    /\ (mainPc \in {"close", "readWait"} \/ chanClosed) => LiveTasks = {}
    /\ panicked # "send on closed channel"

C2_Witness ==
    /\ chanClosed
    /\ \E c \in Steps : ~IsRoot(plan, c) /\ ~IsRoot(plan, plan.parent[c]) /\ taskPc[c] = "done"

\* C3: if every client call returns, Execute eventually returns with the
\* wait group settled and no task blocked on a send; stated on the states
\* where nothing can happen any more and nothing has panicked
C3_ExecuteReturns ==
    (~ENABLED Next /\ panicked = "") =>
        /\ returned.valid
        /\ stepWg = 0
        /\ \A s \in Steps : taskPc[s] # "send"

\* C4: a client error on a step is attached to that step's result and never
\* panics
C4_ClientErrorAttached == panicked # "client error"

\* C5: a root step of the internal service gets no task and no client call
C5_InternalStepInline ==
    \A s \in Steps :
        Step(plan, s).ServiceURL = internalServiceName => taskPc[s] = "idle" /\ calls[s] = 0

\* C6: a child step whose id extraction returned errNilBoundaryData is
\* skipped with all its descendants: no task, no client call, no result for
\* them, and they do not hold the wait group Execute waits for
Descends(s) == s \in skipped \/ Ancestors(plan, s) \cap skipped # {}

C6_SkippedChildNeverRuns ==
    /\ \A s \in Steps :
        Descends(s) => taskPc[s] = "idle" /\ calls[s] = 0 /\ s \notin Handed
    /\ (LiveTasks \subseteq {s \in Steps : Descends(s)}) => stepWg = 0

C6_Witness ==
    /\ NormalReturn
    /\ \E s \in Steps : s \in skipped
    /\ \E s \in Steps : s \notin skipped /\ Ancestors(plan, s) \cap skipped # {}

\* C7: after the caller's cancellation signal fires no new step task starts
C7_NoTaskAfterCancel ==
    [][cancelled => \A s \in Steps : taskPc[s] = "idle" => taskPc'[s] = "idle"]_vars

\* C8: when the internal-step handler fails for a root step, Execute reports
\* the failure to its caller: the error list it returns is not empty
C8_InternalFailureReported == EarlyReturn => Len(returned.errors) > 0

\* the number of results for step s in the slice Execute returned
ReturnedFor(s) ==
    Cardinality({i \in 1..Len(returned.results) : returned.results[i].step = s})

\* the steps that were dispatched: a task was launched for them
Dispatched == {s \in Steps : taskPc[s] # "idle"}

\* C25: the slice Execute returns holds exactly one result for every step
\* that was dispatched (every root step, every child step whose id
\* extraction did not return errNilBoundaryData) and none for the others
C25_OneResultPerDispatchedStep ==
    NormalReturn =>
        \A s \in Steps : ReturnedFor(s) = (IF s \in Dispatched THEN 1 ELSE 0)

\* the same for the plans without a step of the internal service
C25_ServiceStepsOneResult ==
    (NormalReturn /\ \A s \in Steps : Step(plan, s).ServiceURL # internalServiceName) =>
        \A s \in Steps : ReturnedFor(s) = (IF s \in Dispatched THEN 1 ELSE 0)

\* the insertion point of step g relative to the entities of its parent s
RelativeInsertionPoint(s, g) ==
    SubSeq(Step(plan, g).InsertionPoint, Len(Step(plan, s).InsertionPoint) + 1,
           Len(Step(plan, g).InsertionPoint))

\* the iteration of the loop over s.Then for step g is over
LaunchDecided(s, g) ==
    \E i \in 1..Len(Then(plan, s)) : Then(plan, s)[i] = g /\ i < childIdx[s]

\* the ids of the boundary records the entities of child step s hold at the
\* insertion point of g relative to them, <<>> when there is a null or none
RecordIdsFor(s, g) ==
    LET r == extractBoundaryIDs(taskData[s], RelativeInsertionPoint(s, g))
    IN IF r.err = ErrNone THEN r.ids ELSE <<>>

\* C28: when the entities a child step received hold non-null boundary
\* records at a grandchild's insertion point taken relative to the entities,
\* the grandchild is launched with the ids of exactly those records, also
\* when the child step's own insertion point has more than one segment
C28_GrandchildLaunched ==
    \A s, g \in Steps :
        (~IsRoot(plan, s) /\ plan.parent[g] = s /\ LaunchDecided(s, g)
            /\ RecordIdsFor(s, g) # <<>>)
        => (g \in Dispatched /\ g \notin skipped /\ taskIds[g] = RecordIdsFor(s, g))

\* the same for the child steps whose insertion point has one segment
C28_GrandchildOfOneSegmentParent ==
    \A s, g \in Steps :
        (~IsRoot(plan, s) /\ plan.parent[g] = s /\ LaunchDecided(s, g)
            /\ Len(Step(plan, s).InsertionPoint) = 1
            /\ RecordIdsFor(s, g) # <<>>)
        => (g \in Dispatched /\ g \notin skipped /\ taskIds[g] = RecordIdsFor(s, g))

\* C30: after Execute returned early because the internal-step handler
\* failed, no task launched for an earlier root step stays blocked on its
\* send to the results channel: stated on the states where nothing can
\* happen any more
C30_NoSendBlockedAfterEarlyReturn ==
    (EarlyReturn /\ ~ENABLED Next) => \A s \in Steps : taskPc[s] # "send"

\* the same when the failing internal step is the first root step: no task
\* was launched before the return
C30_FailureAtFirstRootStep ==
    (EarlyReturn /\ rootIdx = 1) => \A s \in Steps : taskPc[s] = "idle"

(***************************************************************************)
(* Properties of extractBoundaryIDs                                        *)
(***************************************************************************)
\* the values found at the path, sequences flattened, in visit order
RECURSIVE ValuesAt(_, _)
RECURSIVE ValuesOfEach(_, _)
ValuesOfEach(q, path) ==
    IF q = <<>> THEN <<>> ELSE ValuesAt(Head(q), path) \o ValuesOfEach(Tail(q), path)
ValuesAt(v, path) ==
    IF IsList(v) THEN ValuesOfEach(v.s, path)
    ELSE IF path = <<>> THEN <<v>>
    ELSE IF IsMap(v) THEN ValuesAt(Get(v, Head(path)), Tail(path))
    ELSE <<v>>

\* the identifier of a parent record: its _id when a string, otherwise its id
BoundaryIdOf(m) == IF IsStr(Get(m, "_id")) THEN Get(m, "_id").v ELSE Get(m, "id").v

\* C10: extractBoundaryIDs returns one id per terminal parent mapping at the
\* path, in depth-first visit order, duplicates kept, each mapping's _id
\* when it is a string and otherwise its id
C10_IdsInVisitOrder ==
    (fnPc = "out" /\ fnOut.err = ErrNone) =>
        LET terminals == ValuesAt(fnIn.data, fnIn.insertionPoint) IN
        /\ Len(fnOut.ids) = Len(terminals)
        /\ \A i \in 1..Len(terminals) :
            IsMap(terminals[i]) /\ fnOut.ids[i] = BoundaryIdOf(terminals[i])

C10_Witness ==
    /\ fnPc = "out" /\ fnOut.err = ErrNone
    /\ fnIn.insertionPoint = <<"gizmos", "owner">>
    /\ fnOut.ids = <<"1", "1">>
    /\ ValuesAt(fnIn.data, fnIn.insertionPoint) = <<Rec("_id", "1"), Rec("id", "1")>>

\* the position of the first null among the values visited, 0 when none
FirstNull(q) ==
    IF \E i \in 1..Len(q) : IsNull(q[i])
    THEN CHOOSE i \in 1..Len(q) : IsNull(q[i]) /\ \A j \in 1..(i - 1) : ~IsNull(q[j])
    ELSE 0

\* whether a visited value is a mapping that carries an identifier
HasBoundaryId(v) == IsMap(v) /\ (IsStr(Get(v, "_id")) \/ IsStr(Get(v, "id")))

\* C11: when the walk of extractBoundaryIDs meets a null (a null root, a null
\* or absent value under a path segment, a null element of a sequence), the
\* outcome is errNilBoundaryData and no id is returned, also when the values
\* visited before it carry identifiers
C11_NullGivesSentinel ==
    fnPc = "out" =>
        LET visited == ValuesAt(fnIn.data, fnIn.insertionPoint) IN
        (FirstNull(visited) # 0
            /\ \A j \in 1..(FirstNull(visited) - 1) : HasBoundaryId(visited[j]))
        => (fnOut.err = errNilBoundaryData /\ fnOut.ids = <<>>)

C11_Witness ==
    /\ fnPc = "out" /\ fnOut.err = errNilBoundaryData
    /\ fnIn.insertionPoint = <<"gizmos", "owner">>
    /\ ValuesAt(fnIn.data, fnIn.insertionPoint) = <<Rec("_id", "1"), Null>>

(***************************************************************************)
(* Properties of extractBoundaryIDs and mergeExecutionResultsRec together  *)
(***************************************************************************)
\* whether a sequence in the tree has a sequence as an element
RECURSIVE HasSeqOfSeq(_)
HasSeqOfSeq(v) ==
    IF IsList(v) THEN \E i \in 1..Len(v.s) : IsList(v.s[i]) \/ HasSeqOfSeq(v.s[i])
    ELSE IF IsMap(v) THEN \E k \in DOMAIN v.m : HasSeqOfSeq(v.m[k])
    ELSE FALSE

\* the merge succeeded and every mapping an id was collected from holds the
\* field of the entity
SplicedWhereExtracted ==
    /\ fnOut.merged.err = ErrNone
    /\ LET after == ValuesAt(fnOut.merged.dst, fnIn.insertionPoint) IN
       /\ Len(after) = Len(fnOut.ids)
       /\ \A i \in 1..Len(after) : IsMap(after[i]) /\ Get(after[i], "x") = Str("v")

\* C29: for every tree with a mapping at its root and every insertion
\* point, each mapping from which extractBoundaryIDs collects an id is a
\* mapping mergeExecutionResultsRec splices into for a result with the same
\* insertion point, also when a segment holds a sequence of sequences
C29_ExtractorMergerAgree ==
    (fnPc = "out" /\ fnOut.err = ErrNone /\ IsMap(fnIn.data)) => SplicedWhereExtracted

\* the same for the trees in which no sequence holds a sequence
C29_AgreeWithoutNestedSequences ==
    (fnPc = "out" /\ fnOut.err = ErrNone /\ IsMap(fnIn.data) /\ ~HasSeqOfSeq(fnIn.data))
    => SplicedWhereExtracted

\* the states the restricted statement is about: ids collected through a
\* sequence under the second segment of the path
C29_AgreeCase ==
    /\ fnPc = "out" /\ fnOut.err = ErrNone /\ IsMap(fnIn.data) /\ ~HasSeqOfSeq(fnIn.data)
    /\ Len(fnOut.ids) = 2 /\ fnIn.insertionPoint = <<"gizmos", "owner">>
    /\ IsList(Get(fnIn.data, "gizmos"))

(***************************************************************************)
(* Properties of buildBoundaryQueryDocuments                               *)
(***************************************************************************)
\* the aliased selections of the documents, in order
RECURSIVE AllSelections(_)
AllSelections(documents) ==
    IF documents = <<>> THEN <<>>
    ELSE Head(documents).sels \o AllSelections(Tail(documents))

Ceil(n, b) == (n + b - 1) \div b

\* the aliases over all documents are _0 .. _(N-1) in order, alias _i with
\* the i-th id
AliasesContiguous ==
    LET sels == AllSelections(fnOut) IN
    /\ Len(sels) = Len(fnIn.ids)
    /\ \A i \in 1..Len(sels) :
        sels[i].alias = nodeAlias(i - 1) /\ sels[i].id = fnIn.ids[i]

\* C12: for a non-array boundary query with N ids and batch size B >= 1 the
\* builder emits ceil(N/B) documents whose aliases, taken in order, are
\* _0 .. _(N-1), alias _i carrying the i-th id
C12_BatchedAliases ==
    (fnPc = "out" /\ ~fnIn.parentTypeBoundaryField.Array) =>
        /\ Len(fnOut) = Ceil(Len(fnIn.ids), fnIn.batchSize)
        /\ AliasesContiguous

\* the same for id lists that are not empty, and one document for the empty
\* list
C12_NonEmptyBatchedAliases ==
    (fnPc = "out" /\ ~fnIn.parentTypeBoundaryField.Array) =>
        /\ Len(fnOut) = IF fnIn.ids = <<>> THEN 1
                         ELSE Ceil(Len(fnIn.ids), fnIn.batchSize)
        /\ AliasesContiguous

\* C13: for an array boundary query the builder emits one document whatever
\* the number of ids and the batch size, listing all ids in input order
\* under the alias _result
C13_ArrayOneDocument ==
    (fnPc = "out" /\ fnIn.parentTypeBoundaryField.Array) =>
        /\ Len(fnOut) = 1
        /\ fnOut[1].shape = "array"
        /\ fnOut[1].alias = "_result"
        /\ fnOut[1].ids = fnIn.ids

C13_Witness ==
    /\ fnPc = "out" /\ fnIn.parentTypeBoundaryField.Array
    /\ fnIn.batchSize = 1
    /\ Len(fnIn.ids) = 3
    /\ Len(fnOut) = 1 /\ fnOut[1].ids = fnIn.ids

(***************************************************************************)
(* Properties of executeBoundaryQuery                                      *)
(***************************************************************************)
\* C21: for a non-array step the entities are returned in alias order, so
\* the i-th returned entity answers the i-th requested id
C21_EntitiesInAliasOrder ==
    (fnPc = "out" /\ ~fnIn.boundaryFieldGetter.Array /\ fnOut.err = ErrNone) =>
        fnOut.data = [i \in 1..Len(fnIn.ids) |-> EntityOf(fnIn.ids[i], "record")]

\* the same when every document holds one alias
C21_SingleAliasDocuments ==
    (fnPc = "out" /\ ~fnIn.boundaryFieldGetter.Array /\ fnOut.err = ErrNone
        /\ fnIn.batchSize = 1) =>
        fnOut.data = [i \in 1..Len(fnIn.ids) |-> EntityOf(fnIn.ids[i], "record")]

\* whatever the order, one entity is returned per requested id
C21_OneEntityPerId ==
    (fnPc = "out" /\ ~fnIn.boundaryFieldGetter.Array /\ fnOut.err = ErrNone) =>
        /\ Len(fnOut.data) = Len(fnIn.ids)
        /\ \A id \in {"1", "2"} :
              Cardinality({i \in 1..Len(fnIn.ids) : fnIn.ids[i] = id})
                = Cardinality({i \in 1..Len(fnOut.data) :
                                 fnOut.data[i] = EntityOf(id, "record")})

\* C22: an array-shape step fails when the documents are not exactly one,
\* and fails when the response has no _result or a _result that is no
\* sequence
C22_ArrayShapeFailures ==
    (fnPc = "out" /\ fnIn.boundaryFieldGetter.Array) =>
        /\ Len(fnIn.documents) # 1 => fnOut.err = errSingleDocument
        /\ (Len(fnIn.documents) = 1 /\ fnIn.shape # "entities") => fnOut.err # ErrNone

\* the two failures the code does report: not one document, and a _result
\* that is neither a sequence nor null
C22_ReportedFailures ==
    (fnPc = "out" /\ fnIn.boundaryFieldGetter.Array) =>
        /\ Len(fnIn.documents) # 1 => fnOut.err = errSingleDocument
        /\ (Len(fnIn.documents) = 1 /\ fnIn.shape = "notList") => fnOut.err # ErrNone

(***************************************************************************)
(* Properties of bubbleUpNullValuesInPlace                                 *)
(***************************************************************************)
\* the runtime type tag of a mapping
TypenameOf(v) == IF IsStr(Get(v, "__typename")) THEN Get(v, "__typename").v ELSE ""

\* the value under n wrapper fields
RECURSIVE Descend(_, _)
Descend(v, n) ==
    IF n = 0 THEN v ELSE IF IsMap(v) THEN Descend(Get(v, "w"), n - 1) ELSE Null

\* the value of pets in the tree the bubbler has left
PetsOut == Get(Descend(fnOut.result, fnIn.depth), "pets")

\* pets is a sequence none of whose elements is null
PetsAllRecords ==
    IsList(fnIn.pets) /\ \A i \in 1..Len(fnIn.pets.s) : IsMap(fnIn.pets.s[i])

\* the path of the field name of the i-th pet (list indices count from 0)
NamePathOf(i) ==
    [j \in 1..fnIn.depth |-> PathName("w")]
        \o <<PathName("pets"), PathIndex(i - 1), PathName("name")>>

\* the selection fits a mapping of the type typename: a field, or a fragment
\* on the type or on an interface of the type
Fits(selection, typename) ==
    \/ selection.kind = "Field"
    \/ selection.TypeCondition = typename
    \/ typename \in DOMAIN Schema.Implements
          /\ selection.TypeCondition \in Schema.Implements[typename]

\* the selections of the pets that select name, directly or in a fragment
NameSelections ==
    {j \in 1..Len(fnIn.petSelection) :
        \/ fnIn.petSelection[j].Alias = "name"
        \/ \E n \in 1..Len(fnIn.petSelection[j].SelectionSet) :
              fnIn.petSelection[j].SelectionSet[n].Alias = "name"}

\* name is selected for the i-th pet, in a fragment if inFragment
NameSelectedFor(i, inFragment) ==
    \E j \in NameSelections :
        /\ Fits(fnIn.petSelection[j], TypenameOf(fnIn.pets.s[i]))
        /\ inFragment => fnIn.petSelection[j].kind # "Field"

\* no nullable field holding null is selected for the i-th pet before name
NoNullBeforeName(i) ==
    \A j \in NameSelections : \A b \in 1..(j - 1) :
        fnIn.petSelection[b].kind = "Field" =>
            ~IsNull(Get(fnIn.pets.s[i], fnIn.petSelection[b].Alias))

\* no fragment that fits the i-th pet is selected after name
NoFragmentAfterName(i) ==
    \A j \in NameSelections : \A a \in (j + 1)..Len(fnIn.petSelection) :
        fnIn.petSelection[a].kind = "Field"
            \/ ~Fits(fnIn.petSelection[a], TypenameOf(fnIn.pets.s[i]))

\* the non-null field name is selected for the i-th pet and is null
NameNull(i, inFragment) ==
    /\ IsMap(fnIn.pets.s[i]) /\ IsNull(Get(fnIn.pets.s[i], "name"))
    /\ NameSelectedFor(i, inFragment)

\* the non-null field name of the i-th pet is null, no nullable field that
\* holds null is selected before it and no fitting fragment after it
NameViolated(i) == NameNull(i, FALSE) /\ NoNullBeforeName(i) /\ NoFragmentAfterName(i)

\* the nearest nullable ancestor of the name of the i-th pet holds null: the
\* element, else the field pets, else the nullable wrapper
NearestNullableNulled(i) ==
    IF ~fnIn.elemNonNull THEN IsList(PetsOut) /\ IsNull(PetsOut.s[i])
    ELSE IF ~fnIn.petsNonNull
    THEN IsMap(Descend(fnOut.result, fnIn.depth)) /\ IsNull(PetsOut)
    ELSE /\ fnIn.nullableAt >= 1
         /\ IsMap(Descend(fnOut.result, fnIn.depth - fnIn.nullableAt))
         /\ IsNull(Get(Descend(fnOut.result, fnIn.depth - fnIn.nullableAt), "w"))

\* the errors recorded at the path of the name of the i-th pet
ErrorsAt(i) ==
    {j \in 1..Len(fnOut.errs) :
        fnOut.errs[j] = [Message |-> "field failed to resolve", Path |-> NamePathOf(i)]}

\* C15: when a non-null field holds null, the bubbler records one error
\* "field failed to resolve" at the path of that field, and the nearest
\* nullable ancestor is overwritten with null
C15_ErrorAtFieldPath ==
    (fnPc = "out" /\ fnOut.err = ErrNone /\ PetsAllRecords) =>
        \A i \in 1..Len(fnIn.pets.s) :
            NameViolated(i) => Cardinality(ErrorsAt(i)) = 1 /\ NearestNullableNulled(i)

\* the same for the trees where the list is under at most 3 wrapper fields
C15_ShallowErrorAtFieldPath ==
    (fnPc = "out" /\ fnOut.err = ErrNone /\ PetsAllRecords /\ fnIn.depth <= 3) =>
        \A i \in 1..Len(fnIn.pets.s) :
            NameViolated(i) => Cardinality(ErrorsAt(i)) = 1 /\ NearestNullableNulled(i)

\* a null reaches the root: no field from the violation up to the root is
\* nullable
BubblesToRoot ==
    /\ fnIn.nullableAt = 0 /\ fnIn.petsNonNull
    /\ \/ IsNull(fnIn.pets)
       \/ /\ fnIn.elemNonNull /\ PetsAllRecords
          /\ \E i \in 1..Len(fnIn.pets.s) : NameViolated(i)

C18_Idempotent ==
    fnPc = "again" =>
        /\ fnOut.second.err = ErrNone
        /\ fnOut.second.result = fnOut.first.result

\* the same for the trees in which the first run has set no element of a
\* sequence to null
C18_IdempotentWithoutNulledElement ==
    (fnPc = "again" /\ LET owner == Descend(fnOut.first.result, fnIn.depth)
                       IN (IsMap(owner) /\ IsList(Get(owner, "pets"))) =>
                              \A i \in 1..Len(Get(owner, "pets").s) :
                                  ~IsNull(Get(owner, "pets").s[i])) =>
        /\ fnOut.second.err = ErrNone
        /\ fnOut.second.result = fnOut.first.result

\* the list of pets is still in the tree the bubbler has left
PetsListKept == IsMap(Descend(fnOut.result, fnIn.depth)) /\ IsList(PetsOut)

\* C24: a fragment is evaluated only for a mapping whose __typename is its
\* type condition or implements it; a violation inside such a fragment is
\* reported at the path of the mapping plus the alias and bubbles as if the
\* field were selected directly; mappings of other types are left untouched
\* and yield no error
C24_FragmentsByType ==
    (fnPc = "out" /\ fnOut.err = ErrNone /\ PetsAllRecords /\ fnIn.depth <= 3) =>
        \A i \in 1..Len(fnIn.pets.s) :
            /\ (NameNull(i, TRUE) /\ NoNullBeforeName(i)) =>
                    Cardinality(ErrorsAt(i)) = 1 /\ NearestNullableNulled(i)
            /\ ~NameSelectedFor(i, FALSE) =>
                    /\ ErrorsAt(i) = {}
                    /\ PetsListKept => PetsOut.s[i] = fnIn.pets.s[i]

\* the same when no fragment that fits the mapping follows the fragment
\* holding the violation
C24_LastFittingFragment ==
    (fnPc = "out" /\ fnOut.err = ErrNone /\ PetsAllRecords /\ fnIn.depth <= 3) =>
        \A i \in 1..Len(fnIn.pets.s) :
            /\ (NameNull(i, TRUE) /\ NoNullBeforeName(i) /\ NoFragmentAfterName(i)) =>
                    Cardinality(ErrorsAt(i)) = 1 /\ NearestNullableNulled(i)
            /\ ~NameSelectedFor(i, FALSE) =>
                    /\ ErrorsAt(i) = {}
                    /\ PetsListKept => PetsOut.s[i] = fnIn.pets.s[i]

\* C26: when the bubbler returns without error, every mapping still in the
\* tree holds a value for every selected non-null field, also when a
\* nullable field holding null is selected before it, and every violation
\* has produced an error
C26_NoNullLeftInNonNull ==
    (fnPc = "out" /\ fnOut.err = ErrNone /\ IsList(fnIn.pets)) =>
        /\ PetsListKept =>
              \A i \in 1..Len(PetsOut.s) :
                  (IsMap(PetsOut.s[i]) /\ NameSelectedFor(i, FALSE)) =>
                      ~IsNull(Get(PetsOut.s[i], "name"))
        /\ Len(fnOut.errs) = Cardinality({i \in 1..Len(fnIn.pets.s) : NameNull(i, FALSE)})

\* the same for the selection sets without fragments in which name is
\* selected first
C26_NameSelectedFirst ==
    (fnPc = "out" /\ fnOut.err = ErrNone /\ IsList(fnIn.pets)
        /\ fnIn.petSelection[1].Alias = "name") =>
        /\ PetsListKept =>
              \A i \in 1..Len(PetsOut.s) :
                  (IsMap(PetsOut.s[i]) /\ NameSelectedFor(i, FALSE)) =>
                      ~IsNull(Get(PetsOut.s[i], "name"))
        /\ Len(fnOut.errs) = Cardinality({i \in 1..Len(fnIn.pets.s) : NameNull(i, FALSE)})

\* a value on the way along path from v is null
RECURSIVE NullOnPath(_, _)
NullOnPath(v, path) ==
    IF IsNull(v) THEN TRUE
    ELSE IF path = <<>> THEN FALSE
    ELSE IF Head(path).k = "name"
    THEN IsMap(v) /\ Head(path).v \in DOMAIN v.m
            /\ NullOnPath(v.m[Head(path).v], Tail(path))
    ELSE IsList(v) /\ \E n \in 1..Len(v.s) :
            ToString(n - 1) = Head(path).v /\ NullOnPath(v.s[n], Tail(path))

\* C27: once a selection has signalled bubble-up the call returns the
\* signal whatever selections follow, so every recorded error has an
\* ancestor set to null (or the root error is returned); stated for the
\* lists under at most 3 fields, where each error keeps its own path
C27_EveryErrorHasNullAncestor ==
    (fnPc = "out" /\ fnOut.err = ErrNone /\ fnIn.depth <= 3) =>
        \A e \in 1..Len(fnOut.errs) :
            NullOnPath(fnOut.result,
                       SubSeq(fnOut.errs[e].Path, 1, Len(fnOut.errs[e].Path) - 1))

\* the same for the selection sets whose last selection is a field
C27_FieldSelectedLast ==
    (fnPc = "out" /\ fnOut.err = ErrNone /\ fnIn.depth <= 3
        /\ fnIn.petSelection[Len(fnIn.petSelection)].kind = "Field") =>
        \A e \in 1..Len(fnOut.errs) :
            NullOnPath(fnOut.result,
                       SubSeq(fnOut.errs[e].Path, 1, Len(fnOut.errs[e].Path) - 1))

(***************************************************************************)
(* Properties of formatResponseBody                                        *)
(***************************************************************************)
FormatAliases == {"pets", "id", "name", "owner", "purr", "bark"}

\* the keys written to the buffer, each with the number of mappings open
\* around it
RECURSIVE KeyTrace(_, _)
KeyTrace(buf, depth) ==
    IF buf = <<>> THEN <<>>
    ELSE IF Head(buf) = "{" THEN KeyTrace(Tail(buf), depth + 1)
    ELSE IF Head(buf) = "}" THEN KeyTrace(Tail(buf), depth - 1)
    ELSE IF \E a \in FormatAliases : Head(buf) = KeyPiece(a)
    THEN <<[depth |-> depth, key |-> CHOOSE a \in FormatAliases : Head(buf) = KeyPiece(a)]>>
         \o KeyTrace(Tail(buf), depth)
    ELSE KeyTrace(Tail(buf), depth)

\* the fields of a selection set in its order, those of every fragment (all
\* TRUE) or of the fragments whose type condition fits typename
RECURSIVE SelectedFields(_, _, _)
SelectedFields(selectionSet, all, typename) ==
    IF selectionSet = <<>> THEN <<>>
    ELSE LET sel == Head(selectionSet)
         IN (IF sel.kind = "Field" THEN <<sel>>
             ELSE IF \/ all
                     \/ sel.TypeCondition = typename
                     \/ implementsInterface(Schema, typename, sel.TypeCondition)
             THEN SelectedFields(sel.SelectionSet, all, typename)
             ELSE <<>>)
            \o SelectedFields(Tail(selectionSet), all, typename)

\* the keys a tree is to be written with: those of each mapping in the order
\* of the selection set, nested mappings and elements of sequences included
RECURSIVE SelectionTrace(_, _, _, _)
RECURSIVE SelectionTraceOfFields(_, _, _, _)
RECURSIVE SelectionTraceOfElements(_, _, _, _)
SelectionTraceOfFields(fields, v, all, depth) ==
    IF fields = <<>> THEN <<>>
    ELSE <<[depth |-> depth, key |-> Head(fields).Alias]>>
         \o (IF Head(fields).HasSelectionSet
             THEN SelectionTrace(Head(fields).SelectionSet, Get(v, Head(fields).Alias), all, depth)
             ELSE <<>>)
         \o SelectionTraceOfFields(Tail(fields), v, all, depth)
SelectionTraceOfElements(selectionSet, q, all, depth) ==
    IF q = <<>> THEN <<>>
    ELSE SelectionTrace(selectionSet, Head(q), all, depth)
         \o SelectionTraceOfElements(selectionSet, Tail(q), all, depth)
SelectionTrace(selectionSet, v, all, depth) ==
    CASE IsMap(v) -> SelectionTraceOfFields(SelectedFields(selectionSet, all, TypenameOf(v)),
                                            v, all, depth + 1)
      [] IsList(v) -> SelectionTraceOfElements(selectionSet, v.s, all, depth)
      [] OTHER -> <<>>

\* C19: formatResponseBody writes the keys of every mapping in the order of
\* the selection set, in nested mappings and in each element of a sequence
\* as well
C19_KeysInSelectionOrder ==
    (fnPc = "out" /\ fnOut.err = ErrNone) =>
        KeyTrace(fnOut.body, 0) = SelectionTrace(fnIn.selectionSet, fnIn.result, TRUE, 0)

C19_Witness ==
    /\ fnPc = "out" /\ fnOut.err = ErrNone
    /\ fnIn.petSelection[1].Alias = "owner"
    /\ IsList(fnIn.pets) /\ Len(fnIn.pets.s) = 2
    /\ BufferString(fnOut.body) =
         "{\"pets\":[{\"owner\":{\"id\":\"2\",\"name\":\"o\"},\"id\":\"1\"},"
            \o "{\"owner\":null,\"id\":\"1\"}]}"

\* every field selected for a mapping, directly or by a fragment whose type
\* condition fits its type tag, is a key of the mapping
RECURSIVE SelectedPresent(_, _)
SelectedPresent(selectionSet, v) ==
    CASE IsMap(v) ->
            LET fields == SelectedFields(selectionSet, FALSE, TypenameOf(v))
            IN \A i \in 1..Len(fields) :
                /\ fields[i].Alias \in DOMAIN v.m
                /\ fields[i].HasSelectionSet =>
                      SelectedPresent(fields[i].SelectionSet, v.m[fields[i].Alias])
      [] IsList(v) -> \A i \in 1..Len(v.s) : SelectedPresent(selectionSet, v.s[i])
      [] OTHER -> TRUE

\* C20: the fields of a fragment are written only for a mapping whose
\* __typename fits the type condition of the fragment; the fields of a
\* fragment that does not fit are not written and need not be in the mapping
C20_FragmentsByTypename ==
    (fnPc = "out" /\ SelectedPresent(fnIn.selectionSet, fnIn.result)) =>
        /\ fnOut.err = ErrNone
        /\ KeyTrace(fnOut.body, 0) = SelectionTrace(fnIn.selectionSet, fnIn.result, FALSE, 0)

\* the first half of C20 alone: no failure for the absent fields of a
\* fragment that does not fit
C20_AbsentFieldNoFailure ==
    (fnPc = "out" /\ SelectedPresent(fnIn.selectionSet, fnIn.result)) => fnOut.err = ErrNone

\* the second half of C20 alone: what is written without failure holds no
\* field of a fragment that does not fit
C20_OnlyFittingFieldsWritten ==
    (fnPc = "out" /\ fnOut.err = ErrNone) =>
        KeyTrace(fnOut.body, 0) = SelectionTrace(fnIn.selectionSet, fnIn.result, FALSE, 0)

\* C20 for the selection sets without fragments
C20_WithoutFragments ==
    (fnPc = "out" /\ SelectedPresent(fnIn.selectionSet, fnIn.result)
        /\ \A i \in 1..Len(fnIn.petSelection) : fnIn.petSelection[i].kind = "Field") =>
        /\ fnOut.err = ErrNone
        /\ KeyTrace(fnOut.body, 0) = SelectionTrace(fnIn.selectionSet, fnIn.result, FALSE, 0)

\* the selection set of the input has no fragment
WithoutFragments ==
    \A i \in 1..Len(fnIn.petSelection) : fnIn.petSelection[i].kind = "Field"

\* some mapping of the tree lacks a selected field whose type is non-null
RECURSIVE MissingNonNull(_, _)
MissingNonNull(selectionSet, v) ==
    CASE IsMap(v) ->
            LET fields == SelectedFields(selectionSet, TRUE, "")
            IN \E i \in 1..Len(fields) :
                IF fields[i].Alias \notin DOMAIN v.m THEN fields[i].NonNull
                ELSE /\ fields[i].HasSelectionSet
                     /\ MissingNonNull(fields[i].SelectionSet, v.m[fields[i].Alias])
      [] IsList(v) -> \E i \in 1..Len(v.s) : MissingNonNull(selectionSet, v.s[i])
      [] OTHER -> FALSE

\* the tree with null in the place of every selected field that is missing
RECURSIVE WithNullForMissing(_, _)
WithNullForMissing(selectionSet, v) ==
    CASE IsMap(v) ->
            LET fields == SelectedFields(selectionSet, TRUE, "")
                sub(k) == {i \in 1..Len(fields) :
                              fields[i].Alias = k /\ fields[i].HasSelectionSet}
            IN Map([k \in DOMAIN v.m \cup {fields[i].Alias : i \in 1..Len(fields)} |->
                      IF k \notin DOMAIN v.m THEN Null
                      ELSE IF sub(k) = {} THEN v.m[k]
                      ELSE WithNullForMissing(fields[CHOOSE i \in sub(k) : TRUE].SelectionSet,
                                              v.m[k])])
      [] IsList(v) -> List([i \in 1..Len(v.s) |-> WithNullForMissing(selectionSet, v.s[i])])
      [] OTHER -> v

\* C23: a selected field that is missing from the mapping is written as
\* null when its type is nullable, and makes the formatter fail only when
\* its type is non-null
C23_MissingNullableAsNull ==
    (fnPc = "out" /\ WithoutFragments) =>
        IF MissingNonNull(fnIn.selectionSet, fnIn.result)
        THEN fnOut.err # ErrNone
        ELSE fnOut = formatResponseBody(fnIn.selectionSet,
                                        WithNullForMissing(fnIn.selectionSet, fnIn.result))
             /\ fnOut.err = ErrNone

\* the failing half of C23 alone: a missing field whose type is non-null
\* makes the formatter fail
C23_MissingNonNullFails ==
    (fnPc = "out" /\ WithoutFragments /\ MissingNonNull(fnIn.selectionSet, fnIn.result)) =>
        fnOut.err # ErrNone

\* C23 for the trees that hold every selected field
C23_NothingMissing ==
    (fnPc = "out" /\ WithoutFragments
        /\ WithNullForMissing(fnIn.selectionSet, fnIn.result) = fnIn.result) =>
        fnOut.err = ErrNone

(***************************************************************************)
(* Properties of mergeExecutionResults                                     *)
(***************************************************************************)
\* the parent records of a splice input and what they have become, as sequences
ParentsOf(v) == IF IsList(v) THEN v.s ELSE <<v>>

\* the entities whose identifier equals that of parent record p
MatchesOf(p, es) == {i \in 1..Len(es) : BoundaryIdOf(es[i]) = BoundaryIdOf(p)}

\* parent record p has become m: the keys of every matching entity but id
\* and _id are there with the entity's value, the identifier keys and every
\* other key are those of p
Spliced(p, m, es) ==
    /\ IsMap(m)
    /\ \A i \in MatchesOf(p, es) : \A k \in (DOMAIN es[i].m) \ {"id", "_id"} :
        k \in DOMAIN m.m /\ \E j \in MatchesOf(p, es) : k \in DOMAIN es[j].m /\ m.m[k] = es[j].m[k]
    /\ \A k \in DOMAIN m.m :
        \/ k \in DOMAIN p.m /\ m.m[k] = p.m[k]
        \/ k \notin {"id", "_id"} /\ \E i \in MatchesOf(p, es) : k \in DOMAIN es[i].m
    /\ \A k \in {"id", "_id"} :
        /\ k \in DOMAIN m.m <=> k \in DOMAIN p.m
        /\ k \in DOMAIN p.m => m.m[k] = p.m[k]

\* C14: in the child splice every parent record at the insertion point, also
\* several that share one id, receives all keys but id and _id of the
\* entity whose identifier equals its own, whichever of id or _id each side
\* uses, and keeps its own identifier key unchanged
C14_SpliceByIdentifier ==
    fnPc = "out" =>
        /\ fnOut.err = ErrNone
        /\ IsList(Get(fnOut.data, "owners")) <=> IsList(fnIn.parents)
        /\ LET before == ParentsOf(fnIn.parents)
               after == ParentsOf(Get(fnOut.data, "owners"))
           IN /\ Len(after) = Len(before)
              /\ \A i \in 1..Len(before) : Spliced(before[i], after[i], fnIn.entities)

C14_Witness ==
    /\ fnPc = "out" /\ fnOut.err = ErrNone
    /\ fnIn.parents = List(<<Map("id" :> Str("4") @@ "color" :> Str("RED")),
                              Map("_id" :> Str("4") @@ "color" :> Str("RED"))>>)
    /\ fnIn.entities = <<Map("_id" :> Str("4") @@ "id" :> Str("0") @@ "name" :> Str("Owner4"))>>
    /\ Get(fnOut.data, "owners") =
        List(<<Map("id" :> Str("4") @@ "color" :> Str("RED") @@ "name" :> Str("Owner4")),
               Map("_id" :> Str("4") @@ "color" :> Str("RED") @@ "name" :> Str("Owner4"))>>)

\* C9: the merged tree does not depend on the order of completion: every
\* order Execute can return the results in gives what the order of the plan
\* gives
C9_MergeOrderIndependent ==
    fnPc = "out" => fnOut = mergeExecutionResults(ResultsOf(fnIn.scenario))

\* the same for the requests whose root steps share no top-level field
C9_DisjointRootsOrderIndependent ==
    (fnPc = "out" /\ ~fnIn.scenario.namespaced) =>
        fnOut = mergeExecutionResults(ResultsOf(fnIn.scenario))

====
